---- MODULE Spec2Model ----
(***************************************************************************)
(* Model of the challenge instancer's deployment orchestrator:             *)
(*   - the Store (src/src/database.rs),                                    *)
(*   - the worker pool, the Expiry Queue and recovery                      *)
(*     (src/src/deployment_worker.rs),                                     *)
(*   - the session gateway's action dispatch (src/src/router.rs),          *)
(*   - process start and shutdown (src/src/main.rs).                       *)
(* Every await point of the source at which another task can observe or    *)
(* change shared state is a step boundary of the model.                    *)
(***************************************************************************)
EXTENDS Integers, Sequences, FiniteSets, Bags, TLC

(***************************************************************************)
(* Bounds of the model                                                     *)
(***************************************************************************)
\* the clock runs from 0 to MaxTime
MaxTime == 2
\* number of inbound ChallengeAction frames the sessions accept in total
MaxActions == 2
\* the latest stop_time of a row the previous process left behind
MaxStopTime0 == 1
\* number of rows the previous process left behind
MaxRows0 == 1
\* the characters of a line of a script's output
MaxLineLen == 3
\* the lines of a script's output
MaxLines == 2
\* the digits of a ttl of the configuration
MaxDigits == 10
\* the largest max_concurrent_challenges of the runs that vary it
MaxLimit == 3
\* the frames the client of a session sends in a run that bounds them apart
MaxFrames == 1

(***************************************************************************)
(* Configuration                                                           *)
(***************************************************************************)
Users == {"u1", "u2"}
Challenges == {"c1", "c2"}
Keys == Users \X Challenges
Workers == {"w1", "w2"}
Sessions == {"s1", "s2"}

\* the uid a session is authenticated as: both are sessions of u1; u2 is not
\* connected, its rows are those a previous process left behind
SessionUser(s) == "u1"

\* settings.max_concurrent_challenges
max_concurrent_challenges == 1

\* Challenge::ttl of each configured challenge, in clock units
ttl(c) == IF c = "c1" THEN 1 ELSE 2

\* the catalogs DeploymentWorker::new can build: a configured challenge
\* whose deployer does not exist on disk at load time is left out
Catalogs == {Challenges, {"c1"}}

(***************************************************************************)
(* Values                                                                  *)
(***************************************************************************)
NULL == "null"
NoTime == -1

\* ChallengeInstanceState
Stopped == "Stopped"
Running == "Running"
QueuedStart == "QueuedStart"
QueuedRestart == "QueuedRestart"
QueuedStop == "QueuedStop"

is_queued(st) == st \in {QueuedStop, QueuedStart, QueuedRestart}

\* the details a deployer script can print
Details == {"d1"}

\* a key without a row (its instance is Stopped)
NoRow == [state |-> Stopped, details |-> NULL, stop_time |-> NoTime]

DeploymentRequest(u, c, cmd) == [user_id |-> u, challenge_id |-> c, command |-> cmd]
NoReq == DeploymentRequest("", "", "None")

ChallengeInstanceOrdered(u, c, t) == [user_id |-> u, challenge_id |-> c, stop_time |-> t]
NoEntry == ChallengeInstanceOrdered("", "", NoTime)

StateChange(u, c, st, d, t) ==
    [user_id |-> u, challenge_id |-> c, type |-> "StateChange",
     state |-> st, details |-> d, stop_time |-> t, severity |-> NULL]
Message(u, c, sev) ==
    [user_id |-> u, challenge_id |-> c, type |-> "Message",
     state |-> NULL, details |-> NULL, stop_time |-> NoTime, severity |-> sev]

(***************************************************************************)
(* The Store: pure operators on (rows, counts)                             *)
(***************************************************************************)
\* number of rows of user u
RowCount(rows, u) == Cardinality({c \in Challenges : rows[<<u, c>>] # NoRow})

\* insert_challenge_instance with the "instance_count < ?" condition of its
\* UPDATE left out
insert_no_limit(rows, cnt, u, c, max_instance_count) ==
    IF rows[<<u, c>>] # NoRow
    THEN [result |-> "Exists", rows |-> rows, cnt |-> cnt]
    ELSE [result |-> "Inserted",
          rows |-> [rows EXCEPT ![<<u, c>>] =
                      [state |-> QueuedStart, details |-> NULL, stop_time |-> NoTime]],
          cnt |-> [cnt EXCEPT ![u] = @ + 1]]

\* insert_challenge_instance whose increment stays when the INSERT meets the
\* unique constraint
insert_no_rollback(rows, cnt, u, c, max_instance_count) ==
    LET cnt1 == [cnt EXCEPT ![u] = @ + 1]
        rows1 == [rows EXCEPT ![<<u, c>>] =
                     [state |-> QueuedStart, details |-> NULL, stop_time |-> NoTime]]
    IN  IF ~(cnt[u] < max_instance_count)
        THEN [result |-> "LimitReached", rows |-> rows, cnt |-> cnt]
        ELSE IF rows[<<u, c>>] # NoRow
             THEN [result |-> "Exists", rows |-> rows, cnt |-> cnt1]
             ELSE [result |-> "Inserted", rows |-> rows1, cnt |-> cnt1]

\* one transaction: increment the counter where it is below the limit, then
\* insert the row; a transaction that is not committed is rolled back
insert_challenge_instance(rows, cnt, u, c, max_instance_count) ==
    LET cnt1 == [cnt EXCEPT ![u] = @ + 1]
        rows1 == [rows EXCEPT ![<<u, c>>] =
                     [state |-> QueuedStart, details |-> NULL, stop_time |-> NoTime]]
    IN  IF ~(cnt[u] < max_instance_count)
        THEN [result |-> "LimitReached", rows |-> rows, cnt |-> cnt]
        ELSE IF rows[<<u, c>>] # NoRow
             THEN [result |-> "Exists", rows |-> rows, cnt |-> cnt]
             ELSE [result |-> "Inserted", rows |-> rows1, cnt |-> cnt1]

\* transition_challenge_instance_state with the "AND state = ?" condition
\* left out
transition_any_state(rows, u, c, old_state, new_state) ==
    IF rows[<<u, c>>] # NoRow
    THEN [ok |-> TRUE, rows |-> [rows EXCEPT ![<<u, c>>].state = new_state]]
    ELSE [ok |-> FALSE, rows |-> rows]

\* UPDATE ... SET state = new WHERE key AND state = old
transition_challenge_instance_state(rows, u, c, old_state, new_state) ==
    IF rows[<<u, c>>] # NoRow /\ rows[<<u, c>>].state = old_state
    THEN [ok |-> TRUE, rows |-> [rows EXCEPT ![<<u, c>>].state = new_state]]
    ELSE [ok |-> FALSE, rows |-> rows]

\* populate_running_challenge_instance with the details column left out
populate_no_details(rows, u, c, details, stop_time) ==
    IF rows[<<u, c>>] # NoRow
    THEN [rows EXCEPT ![<<u, c>>] =
             [state |-> Running, details |-> NULL, stop_time |-> stop_time]]
    ELSE rows

\* UPDATE ... SET state = Running, details, stop_time WHERE key
populate_running_challenge_instance(rows, u, c, details, stop_time) ==
    IF rows[<<u, c>>] # NoRow
    THEN [rows EXCEPT ![<<u, c>>] =
             [state |-> Running, details |-> details, stop_time |-> stop_time]]
    ELSE rows

\* extend_challenge_instance with the "state = Running" condition left out
extend_any_state(rows, u, c, stop_time) ==
    IF rows[<<u, c>>] # NoRow
    THEN [ok |-> TRUE, rows |-> [rows EXCEPT ![<<u, c>>].stop_time = stop_time]]
    ELSE [ok |-> FALSE, rows |-> rows]

\* UPDATE ... SET stop_time WHERE state = Running AND key
extend_challenge_instance(rows, u, c, stop_time) ==
    IF rows[<<u, c>>] # NoRow /\ rows[<<u, c>>].state = Running
    THEN [ok |-> TRUE, rows |-> [rows EXCEPT ![<<u, c>>].stop_time = stop_time]]
    ELSE [ok |-> FALSE, rows |-> rows]

\* delete_challenge_instance with the UPDATE of users left out
delete_no_decrement(rows, cnt, u, c) ==
    [rows |-> [rows EXCEPT ![<<u, c>>] = NoRow], cnt |-> cnt]

\* one transaction: DELETE the row; UPDATE users SET instance_count - 1
delete_challenge_instance(rows, cnt, u, c) ==
    [rows |-> [rows EXCEPT ![<<u, c>>] = NoRow],
     cnt |-> [cnt EXCEPT ![u] = @ - 1]]

\* unconditional write of the state column (details and stop_time untouched)
update_challenge_instance_state(rows, u, c, new_state) ==
    IF rows[<<u, c>>] # NoRow
    THEN [rows EXCEPT ![<<u, c>>].state = new_state]
    ELSE rows

(***************************************************************************)
(* The Expiry Queue: a bag of entries, popped in ascending stop_time       *)
(***************************************************************************)
\* the entries a BinaryHeap<Reverse<..>>::peek / pop can return
HeapMin(heap) ==
    {e \in BagToSet(heap) : \A f \in BagToSet(heap) : e.stop_time <= f.stop_time}

HeapPush(heap, e) == heap (+) SetToBag({e})
HeapPop(heap, e) == heap (-) SetToBag({e})

\* pop_ttl: every entry of the key is dropped, the others are pushed back
pop_ttl(heap, u, c) ==
    LET keep == {e \in BagToSet(heap) : ~(e.user_id = u /\ e.challenge_id = c)}
    IN  [e \in keep |-> heap[e]]

\* how many entries the key has
EntriesOf(heap, k) ==
    LET es == {e \in BagToSet(heap) : e.user_id = k[1] /\ e.challenge_id = k[2]}
        RECURSIVE Sum(_)
        Sum(S) == IF S = {} THEN 0
                  ELSE LET x == CHOOSE x \in S : TRUE IN heap[x] + Sum(S \ {x})
    IN  Sum(es)


(***************************************************************************)
(* State                                                                   *)
(***************************************************************************)
VARIABLES
    challenge_instances,  \* table challenge_instances: key -> row (NoRow: none)
    instance_count,       \* column users.instance_count: user -> integer
    challenges,           \* DeploymentWorker::challenges (the Catalog)
    request_queue,        \* the async_channel of DeploymentRequest
    ttl_expiries,         \* DeploymentWorker::ttl_expiries (the heap)
    mutex,                \* the task holding the ttl_expiries mutex, or "free"
    update_bus,           \* the updates sent on update_tx, in order
    observe,              \* whether update_bus and socket are recorded in this run
    update_rx,            \* each session's receiver: the updates it has taken
    socket,               \* the messages sent on each session's WebSocket, in order
    rate_limiter,         \* state.rate_limiter: the cells taken for each key
    shutdown_token,       \* the CancellationToken
    now,                  \* the clock
    main,                 \* where main() is
    worker,               \* each do_work task: position and locals
    session,              \* each dashboard_handle_ws task: position and locals
    actions,              \* inbound ChallengeAction frames taken so far
    probe                 \* the scenario of a run of one operation, and its record

durable == <<challenge_instances, instance_count>>
memory == <<challenges, request_queue, ttl_expiries, mutex, update_bus,
            shutdown_token, main, worker, session>>
vars == <<challenge_instances, instance_count, challenges, request_queue,
          ttl_expiries, mutex, update_bus, observe, update_rx, socket,
          rate_limiter, shutdown_token, now, main, worker, session, actions, probe>>

WorkerStart == [pc |-> "loop", req |-> NoReq, ent |-> NoEntry,
                details |-> NULL, stop_time |-> NoTime, updates |-> <<>>]
SessionStart == [pc |-> "recv", cid |-> "", stop_time |-> NoTime]
\* no scenario: the process runs as deployed
NoProbe == [op |-> "none"]

\* the process is running its tasks
Live == main \in {"serving", "joining"}

\* a fresh process on the given durable state: DeploymentWorker::new
Boot(cat) ==
    /\ challenges = cat
    /\ request_queue = <<>>
    /\ ttl_expiries = EmptyBag
    /\ mutex = "free"
    /\ update_bus = <<>>
    /\ update_rx = [s \in Sessions |-> 0]
    /\ socket = [s \in Sessions |-> <<>>]
    /\ rate_limiter = [u \in Users |-> 0]
    /\ shutdown_token = FALSE
    /\ main = "prepare"
    /\ worker = [w \in Workers |-> WorkerStart]
    /\ session = [s \in Sessions |-> SessionStart]

\* the rows a previous process can leave behind: a QueuedStart row has
\* neither details nor stop_time, every other row has both
Rows0 ==
    {NoRow, [state |-> QueuedStart, details |-> NULL, stop_time |-> NoTime]}
    \cup [state : {Running, QueuedStop, QueuedRestart}, details : Details,
          stop_time : 0..MaxStopTime0]

\* the database files a process can start on: every user is below or at the
\* limit and the counter is the number of rows
Tables0 ==
    {t \in [Keys -> Rows0] :
        /\ \A u \in Users : RowCount(t, u) <= max_concurrent_challenges
        /\ Cardinality({k \in Keys : t[k] # NoRow}) <= MaxRows0}

Init ==
    /\ challenge_instances \in Tables0
    /\ instance_count = [u \in Users |-> RowCount(challenge_instances, u)]
    /\ now = 0
    /\ actions = 0
    /\ observe = FALSE
    /\ probe = NoProbe
    /\ \E cat \in Catalogs : Boot(cat)

(***************************************************************************)
(* main                                                                    *)
(***************************************************************************)
\* the sequences that list every element of S once
RECURSIVE Orders(_)
Orders(S) ==
    IF S = {} THEN {<<>>}
    ELSE UNION {{<<x>> \o t : t \in Orders(S \ {x})} : x \in S}

\* DeploymentWorker::prepare with an expiry entry pushed for every row that
\* has a stop_time, Running or not
prepare_all_rows(from, to) ==
    /\ main = from
    /\ \E order \in Orders({k \in Keys : is_queued(challenge_instances[k].state)}) :
          request_queue' = request_queue \o
              [i \in 1..Len(order) |-> DeploymentRequest(order[i][1], order[i][2], "Cleanup")]
    /\ ttl_expiries' = ttl_expiries (+)
          SetToBag({ChallengeInstanceOrdered(k[1], k[2], challenge_instances[k].stop_time) :
                      k \in {j \in Keys : challenge_instances[j].stop_time # NoTime}})
    /\ main' = to
    /\ UNCHANGED <<durable, challenges, mutex, update_bus, shutdown_token, now,
                   worker, session, actions, observe,
                   update_rx, socket, rate_limiter, probe>>

\* DeploymentWorker::prepare, called where main is at from: a Cleanup for
\* every queued row, in the order the SELECT returns them, and an expiry
\* entry for every Running row
prepare_at(from, to) ==
    /\ main = from
    /\ \E order \in Orders({k \in Keys : is_queued(challenge_instances[k].state)}) :
          request_queue' = request_queue \o
              [i \in 1..Len(order) |-> DeploymentRequest(order[i][1], order[i][2], "Cleanup")]
    /\ ttl_expiries' = ttl_expiries (+)
          SetToBag({ChallengeInstanceOrdered(k[1], k[2], challenge_instances[k].stop_time) :
                      k \in {j \in Keys : challenge_instances[j].state = Running}})
    /\ main' = to
    /\ UNCHANGED <<durable, challenges, mutex, update_bus, shutdown_token, now,
                   worker, session, actions, observe,
                   update_rx, socket, rate_limiter, probe>>

\* main: worker.prepare() before the workers are spawned and the server is
\* started
prepare == prepare_at("prepare", "serving")

\* main after axum::serve returned: shutdown_token.cancel()
cancel ==
    /\ main = "serving"
    /\ shutdown_token' = TRUE
    /\ main' = "joining"
    /\ UNCHANGED <<durable, challenges, request_queue, ttl_expiries, mutex,
                   update_bus, now, worker, session, actions, observe,
                   update_rx, socket, rate_limiter, probe>>

\* workers.join_all() returned (or re-raised a worker's panic): main ends
join_all ==
    /\ main = "joining"
    /\ \A w \in Workers : worker[w].pc \in {"done", "panicked"}
    /\ main' = "exited"
    /\ UNCHANGED <<durable, challenges, request_queue, ttl_expiries, mutex,
                   update_bus, shutdown_token, now, worker, session, actions, observe,
                   update_rx, socket, rate_limiter, probe>>

\* the clock advances
Tick ==
    /\ now < MaxTime
    /\ now' = now + 1
    /\ UNCHANGED <<durable, memory, actions, observe,
                   update_rx, socket, rate_limiter, probe>>


(***************************************************************************)
(* DeploymentWorker::do_work                                               *)
(***************************************************************************)
\* an update on the bus, with the command its sender was handling ("Expiry"
\* for the expiry loop)
Sent(update, cmd) == [update |-> update, command |-> cmd]

\* update_tx.send of one update
send(cmd, update) ==
    update_bus' = IF observe THEN Append(update_bus, Sent(update, cmd)) ELSE update_bus

\* the end of a match arm of handle_request: the pair (state_change, message)
\* is built and the task goes on to send it; a run that does not record the
\* bus is back at the loop head at once
emit(w, state_change, severity) ==
    LET req == worker[w].req
        updates == << [state_change EXCEPT !.user_id = req.user_id,
                                           !.challenge_id = req.challenge_id],
                      Message(req.user_id, req.challenge_id, severity) >>
    IN  worker' = [worker EXCEPT ![w] =
                      IF observe
                      THEN [WorkerStart EXCEPT !.pc = "emit", !.req = req,
                                               !.updates = updates]
                      ELSE WorkerStart]

\* expiry loop, from a peek to the next await: with nothing expired the loop
\* breaks, the guard is dropped and the task waits in select!; an expired
\* head is popped and its CAS awaited with the mutex held
Peek(w) ==
    \/ /\ \A e \in HeapMin(ttl_expiries) : e.stop_time > now
       /\ mutex' = "free"
       /\ worker' = [worker EXCEPT ![w] = [WorkerStart EXCEPT !.pc = "select"]]
       /\ UNCHANGED ttl_expiries
    \/ \E e \in HeapMin(ttl_expiries) :
          /\ ~(e.stop_time > now)
          /\ ttl_expiries' = HeapPop(ttl_expiries, e)
          /\ mutex' = w
          /\ worker' = [worker EXCEPT ![w] = [WorkerStart EXCEPT !.pc = "cas", !.ent = e]]

\* the loop with "while !cancelled": it returns on cancellation whatever is
\* in the queue
WorkerLoop_no_drain(w) ==
    /\ Live
    /\ worker[w].pc \in {"loop", "select"}
    /\ \/ /\ shutdown_token
          /\ worker' = [worker EXCEPT ![w] = [WorkerStart EXCEPT !.pc = "done"]]
          /\ UNCHANGED <<mutex, ttl_expiries>>
       \/ /\ ~shutdown_token
          /\ mutex = "free"
          /\ Peek(w)
    /\ UNCHANGED <<durable, challenges, request_queue, update_bus,
                   shutdown_token, now, main, session, actions, observe,
                   update_rx, socket, rate_limiter, probe>>

\* loop head, after handle_request returned or select! woke on the sleep or
\* the cancellation: return when cancelled with an empty queue, else lock
\* ttl_expiries and peek
WorkerLoop(w) ==
    /\ Live
    /\ worker[w].pc \in {"loop", "select"}
    /\ \/ /\ ~(~shutdown_token \/ Len(request_queue) > 0)
          /\ worker' = [worker EXCEPT ![w] = [WorkerStart EXCEPT !.pc = "done"]]
          /\ UNCHANGED <<mutex, ttl_expiries>>
       \/ /\ ~shutdown_token \/ Len(request_queue) > 0
          /\ mutex = "free"
          /\ Peek(w)
    /\ UNCHANGED <<durable, challenges, request_queue, update_bus,
                   shutdown_token, now, main, session, actions, observe,
                   update_rx, socket, rate_limiter, probe>>

\* expiry loop: the CAS Running -> QueuedStop of the popped entry; when it
\* succeeded the Stop request is sent, else the loop peeks again
WorkerCas(w) ==
    /\ Live
    /\ worker[w].pc = "cas"
    /\ LET e == worker[w].ent
           r == transition_challenge_instance_state(challenge_instances,
                    e.user_id, e.challenge_id, Running, QueuedStop)
       IN  /\ challenge_instances' = r.rows
           /\ IF r.ok
              THEN /\ request_queue' = Append(request_queue,
                          DeploymentRequest(e.user_id, e.challenge_id, "Stop"))
                   /\ worker' = [worker EXCEPT ![w].pc = "bcast"]
                   /\ UNCHANGED <<mutex, ttl_expiries>>
              ELSE /\ UNCHANGED request_queue
                   /\ Peek(w)
    /\ UNCHANGED <<instance_count, challenges, update_bus,
                   shutdown_token, now, main, session, actions, observe,
                   update_rx, socket, rate_limiter, probe>>

\* expiry loop: the StateChange(QueuedStop) broadcast after the Stop request,
\* then the next peek
WorkerBcast(w) ==
    /\ Live
    /\ worker[w].pc = "bcast"
    /\ send("Expiry", StateChange(worker[w].ent.user_id, worker[w].ent.challenge_id,
                                   QueuedStop, NULL, NoTime))
    /\ Peek(w)
    /\ UNCHANGED <<durable, challenges, request_queue,
                   shutdown_token, now, main, session, actions, observe,
                   update_rx, socket, rate_limiter, probe>>

\* the receive without the catalog lookup of handle_request: every request
\* goes to its script
WorkerRecv_no_lookup(w) ==
    /\ Live
    /\ worker[w].pc = "select"
    /\ Len(request_queue) > 0
    /\ request_queue' = Tail(request_queue)
    /\ worker' = [worker EXCEPT ![w].pc = "deploy", ![w].req = Head(request_queue)]
    /\ UNCHANGED <<durable, challenges, ttl_expiries, mutex, update_bus,
                   shutdown_token, now, main, session, actions, observe,
                   update_rx, socket, rate_limiter, probe>>

\* select!: a request was received; handle_request drops it when its
\* challenge is not in the catalog
WorkerRecv(w) ==
    /\ Live
    /\ worker[w].pc = "select"
    /\ Len(request_queue) > 0
    /\ request_queue' = Tail(request_queue)
    /\ IF Head(request_queue).challenge_id \in challenges
       THEN worker' = [worker EXCEPT ![w].pc = "deploy", ![w].req = Head(request_queue)]
       ELSE worker' = [worker EXCEPT ![w].pc = "loop"]
    /\ UNCHANGED <<durable, challenges, ttl_expiries, mutex, update_bus,
                   shutdown_token, now, main, session, actions, observe,
                   update_rx, socket, rate_limiter, probe>>

\* the state a failed Start, Stop or Restart reports
FailedState(cmd) ==
    CASE cmd = "Start" -> QueuedStart
      [] cmd = "Stop" -> QueuedStop
      [] cmd = "Restart" -> QueuedRestart

\* handle_request writing the details and stop_time of the Restart's update
\* (None, None) to the row
WorkerDeploy_restart_repopulates(w) ==
    /\ Live
    /\ worker[w].pc = "deploy"
    /\ LET req == worker[w].req IN
       \/ /\ req.command = "Start"
          /\ \E d \in Details :
                worker' = [worker EXCEPT ![w].pc = "pop_ttl", ![w].details = d,
                              ![w].stop_time = now + ttl(req.challenge_id)]
          /\ UNCHANGED <<challenge_instances, request_queue, update_bus>>
       \/ /\ req.command \in {"Stop", "Cleanup"}
          /\ worker' = [worker EXCEPT ![w].pc = "pop_ttl"]
          /\ UNCHANGED <<challenge_instances, request_queue, update_bus>>
       \/ /\ req.command = "Restart"
          /\ challenge_instances' = populate_running_challenge_instance(
                 challenge_instances, req.user_id, req.challenge_id, NULL, NoTime)
          /\ emit(w, StateChange("", "", Running, NULL, NoTime), "Success")
          /\ UNCHANGED <<request_queue, update_bus>>
       \/ /\ req.command \in {"Start", "Stop", "Restart"}
          /\ request_queue' = Append(request_queue,
                 DeploymentRequest(req.user_id, req.challenge_id, "Cleanup"))
          /\ emit(w, StateChange("", "", FailedState(req.command), NULL, NoTime), "Error")
          /\ UNCHANGED <<challenge_instances, update_bus>>
    /\ UNCHANGED <<instance_count, challenges, ttl_expiries, mutex,
                   shutdown_token, now, main, session, actions, observe,
                   update_rx, socket, rate_limiter, probe>>

\* handle_request deleting the row itself when a script fails, instead of
\* leaving it to a Cleanup request
WorkerDeploy_failure_deletes(w) ==
    /\ Live
    /\ worker[w].pc = "deploy"
    /\ LET req == worker[w].req IN
       \/ /\ req.command = "Start"
          /\ \E d \in Details :
                worker' = [worker EXCEPT ![w].pc = "pop_ttl", ![w].details = d,
                              ![w].stop_time = now + ttl(req.challenge_id)]
          /\ UNCHANGED <<challenge_instances, request_queue, update_bus>>
       \/ /\ req.command \in {"Stop", "Cleanup"}
          /\ worker' = [worker EXCEPT ![w].pc = "pop_ttl"]
          /\ UNCHANGED <<challenge_instances, request_queue, update_bus>>
       \/ /\ req.command = "Restart"
          /\ challenge_instances' = update_challenge_instance_state(
                 challenge_instances, req.user_id, req.challenge_id, Running)
          /\ emit(w, StateChange("", "", Running, NULL, NoTime), "Success")
          /\ UNCHANGED <<request_queue, update_bus>>
       \/ /\ req.command \in {"Start", "Stop", "Restart"}
          /\ challenge_instances' =
                 [challenge_instances EXCEPT ![<<req.user_id, req.challenge_id>>] = NoRow]
          /\ emit(w, StateChange("", "", FailedState(req.command), NULL, NoTime), "Error")
          /\ UNCHANGED <<request_queue, update_bus>>
    /\ UNCHANGED <<instance_count, challenges, ttl_expiries, mutex,
                   shutdown_token, now, main, session, actions, observe,
                   update_rx, socket, rate_limiter, probe>>

\* handle_request: Challenge::deploy returned Ok(details), or Err for a Start,
\* Stop or Restart
WorkerDeploy(w) ==
    /\ Live
    /\ worker[w].pc = "deploy"
    /\ LET req == worker[w].req IN
       \/ /\ req.command = "Start"
          /\ \E d \in Details :
                worker' = [worker EXCEPT ![w].pc = "pop_ttl", ![w].details = d,
                              ![w].stop_time = now + ttl(req.challenge_id)]
          /\ UNCHANGED <<challenge_instances, request_queue, update_bus>>
       \/ /\ req.command \in {"Stop", "Cleanup"}
          /\ worker' = [worker EXCEPT ![w].pc = "pop_ttl"]
          /\ UNCHANGED <<challenge_instances, request_queue, update_bus>>
       \/ /\ req.command = "Restart"
          /\ challenge_instances' = update_challenge_instance_state(
                 challenge_instances, req.user_id, req.challenge_id, Running)
          /\ emit(w, StateChange("", "", Running, NULL, NoTime), "Success")
          /\ UNCHANGED <<request_queue, update_bus>>
       \/ /\ req.command \in {"Start", "Stop", "Restart"}
          /\ request_queue' = Append(request_queue,
                 DeploymentRequest(req.user_id, req.challenge_id, "Cleanup"))
          /\ emit(w, StateChange("", "", FailedState(req.command), NULL, NoTime), "Error")
          /\ UNCHANGED <<challenge_instances, update_bus>>
    /\ UNCHANGED <<instance_count, challenges, ttl_expiries, mutex,
                   shutdown_token, now, main, session, actions, observe,
                   update_rx, socket, rate_limiter, probe>>

\* handle_request: the cleanup script failed, the task panics
WorkerPanic(w) ==
    /\ Live
    /\ worker[w].pc = "deploy"
    /\ worker[w].req.command = "Cleanup"
    /\ worker' = [worker EXCEPT ![w] = [WorkerStart EXCEPT !.pc = "panicked"]]
    /\ UNCHANGED <<durable, challenges, request_queue, ttl_expiries, mutex, update_bus,
                   shutdown_token, now, main, session, actions, observe,
                   update_rx, socket, rate_limiter, probe>>

\* pop_ttl taken without waiting for the ttl_expiries mutex
WorkerPopTtl_unlocked(w) ==
    /\ Live
    /\ worker[w].pc = "pop_ttl"
    /\ ttl_expiries' = pop_ttl(ttl_expiries, worker[w].req.user_id, worker[w].req.challenge_id)
    /\ worker' = [worker EXCEPT ![w].pc =
                     IF worker[w].req.command = "Start" THEN "push" ELSE "delete"]
    /\ UNCHANGED <<durable, challenges, request_queue, mutex, update_bus,
                   shutdown_token, now, main, session, actions, observe,
                   update_rx, socket, rate_limiter, probe>>

\* pop_ttl, called by push_ttl (Start) or directly (Stop, Cleanup)
WorkerPopTtl(w) ==
    /\ Live
    /\ worker[w].pc = "pop_ttl"
    /\ mutex = "free"
    /\ ttl_expiries' = pop_ttl(ttl_expiries, worker[w].req.user_id, worker[w].req.challenge_id)
    /\ worker' = [worker EXCEPT ![w].pc =
                     IF worker[w].req.command = "Start" THEN "push" ELSE "delete"]
    /\ UNCHANGED <<durable, challenges, request_queue, mutex, update_bus,
                   shutdown_token, now, main, session, actions, observe,
                   update_rx, socket, rate_limiter, probe>>

\* push_ttl: the push after its pop_ttl
WorkerPushTtl(w) ==
    /\ Live
    /\ worker[w].pc = "push"
    /\ mutex = "free"
    /\ ttl_expiries' = HeapPush(ttl_expiries,
           ChallengeInstanceOrdered(worker[w].req.user_id, worker[w].req.challenge_id,
                                    worker[w].stop_time))
    /\ worker' = [worker EXCEPT ![w].pc = "populate"]
    /\ UNCHANGED <<durable, challenges, request_queue, mutex, update_bus,
                   shutdown_token, now, main, session, actions, observe,
                   update_rx, socket, rate_limiter, probe>>

\* Start success: populate_running_challenge_instance
WorkerPopulate(w) ==
    /\ Live
    /\ worker[w].pc = "populate"
    /\ LET req == worker[w].req IN
       /\ challenge_instances' = populate_running_challenge_instance(
              challenge_instances, req.user_id, req.challenge_id,
              worker[w].details, worker[w].stop_time)
       /\ emit(w, StateChange("", "", Running, worker[w].details, worker[w].stop_time),
               "Success")
    /\ UNCHANGED <<instance_count, challenges, request_queue, ttl_expiries, mutex, update_bus,
                   shutdown_token, now, main, session, actions, observe,
                   update_rx, socket, rate_limiter, probe>>

\* Stop or Cleanup success: delete_challenge_instance
WorkerDelete(w) ==
    /\ Live
    /\ worker[w].pc = "delete"
    /\ LET req == worker[w].req
           r == delete_challenge_instance(challenge_instances, instance_count,
                                          req.user_id, req.challenge_id)
       IN  /\ challenge_instances' = r.rows
           /\ instance_count' = r.cnt
           /\ emit(w, StateChange("", "", Stopped, NULL, NoTime),
                   IF req.command = "Stop" THEN "Success" ELSE "Info")
    /\ UNCHANGED <<challenges, request_queue, ttl_expiries, mutex, update_bus,
                   shutdown_token, now, main, session, actions, observe,
                   update_rx, socket, rate_limiter, probe>>

\* handle_request returning after the first update_tx.send
WorkerEmit_state_change_only(w) ==
    /\ Live
    /\ worker[w].pc = "emit"
    /\ send(worker[w].req.command, Head(worker[w].updates))
    /\ worker' = [worker EXCEPT ![w] = WorkerStart]
    /\ UNCHANGED <<durable, challenges, request_queue, ttl_expiries, mutex,
                   shutdown_token, now, main, session, actions, observe,
                   update_rx, socket, rate_limiter, probe>>

\* handle_request, after the match: update_tx.send of the state change, then
\* of the message, and the return to the loop head
WorkerEmit(w) ==
    /\ Live
    /\ worker[w].pc = "emit"
    /\ send(worker[w].req.command, Head(worker[w].updates))
    /\ worker' = [worker EXCEPT ![w] =
                     IF Len(worker[w].updates) = 1 THEN WorkerStart
                     ELSE [@ EXCEPT !.updates = Tail(@)]]
    /\ UNCHANGED <<durable, challenges, request_queue, ttl_expiries, mutex,
                   shutdown_token, now, main, session, actions, observe,
                   update_rx, socket, rate_limiter, probe>>

(***************************************************************************)
(* dashboard_handle_ws: inbound ChallengeAction                            *)
(***************************************************************************)
ChallengeActionCommand == {"start", "stop", "restart", "extend"}

\* ClientBoundMessage::ChallengeStateChange and ClientBoundMessage::Message
ChallengeStateChange(id, st, d, t) ==
    [type |-> "ChallengeStateChange", id |-> id, state |-> st, details |-> d,
     stop_time |-> t, severity |-> NULL]
ClientMessage(id, sev) ==
    [type |-> "Message", id |-> id, state |-> NULL, details |-> NULL,
     stop_time |-> NoTime, severity |-> sev]

\* socket.send of the given messages by session s, from the arm of select!
\* named by via: "action" for an inbound frame, "update" for a bus update
socket_send(s, via, msgs) ==
    socket' = IF observe
              THEN [socket EXCEPT ![s] =
                       @ \o [i \in 1..Len(msgs) |-> [message |-> msgs[i], via |-> via]]]
              ELSE socket

\* rate_limiter.check_key(u) answering Ok: one cell of the budget of key u is
\* taken (the token bucket of the per-user limiter)
check_key(limiter, u) == [limiter EXCEPT ![u] = @ + 1]

\* a frame was received while the token is not cancelled, its id is in the
\* catalog and the rate limiter lets it through, which takes a cell of the
\* user's budget; Extend reads the clock here
GwRecv(s) ==
    /\ Live
    /\ session[s].pc = "recv"
    /\ ~shutdown_token
    /\ actions < MaxActions
    /\ actions' = actions + 1
    /\ rate_limiter' = check_key(rate_limiter, SessionUser(s))
    /\ \E cid \in challenges, action \in ChallengeActionCommand :
          session' = [session EXCEPT ![s] =
              [pc |-> action, cid |-> cid,
               stop_time |-> IF action = "extend" THEN now + ttl(cid) ELSE NoTime]]
    /\ UNCHANGED <<durable, challenges, request_queue, ttl_expiries, mutex,
                   update_bus, shutdown_token, now, main, worker, observe,
                   update_rx, socket, probe>>

\* the denial without its continue: the Warning is sent and the action is
\* dispatched all the same
GwDenied_dispatches(s) ==
    /\ Live
    /\ session[s].pc = "recv"
    /\ ~shutdown_token
    /\ actions < MaxActions
    /\ actions' = actions + 1
    /\ \E cid \in challenges, action \in ChallengeActionCommand :
          /\ socket_send(s, "action", << ClientMessage(cid, "Warning") >>)
          /\ session' = [session EXCEPT ![s] =
                 [pc |-> action, cid |-> cid,
                  stop_time |-> IF action = "extend" THEN now + ttl(cid) ELSE NoTime]]
    /\ UNCHANGED <<durable, challenges, request_queue, ttl_expiries, mutex,
                   update_bus, shutdown_token, now, main, worker, observe,
                   update_rx, rate_limiter, probe>>

\* a frame was received whose id is in the catalog and the rate limiter
\* answered Err(not_until): a Message(Warning) keyed by the challenge id is
\* sent and the loop continues
GwDenied(s) ==
    /\ Live
    /\ session[s].pc = "recv"
    /\ ~shutdown_token
    /\ actions < MaxActions
    /\ actions' = actions + 1
    /\ \E cid \in challenges : socket_send(s, "action", << ClientMessage(cid, "Warning") >>)
    /\ UNCHANGED <<durable, challenges, request_queue, ttl_expiries, mutex,
                   update_bus, shutdown_token, now, main, worker, session, observe,
                   update_rx, rate_limiter, probe>>

\* the close with the rate limiter consulted before the frame is looked at
GwClose_after_check_key(s) ==
    /\ Live
    /\ session[s].pc = "recv"
    /\ ~shutdown_token
    /\ rate_limiter' = check_key(rate_limiter, SessionUser(s))
    /\ \E frame \in {"invalid"} \cup (Challenges \ challenges) :
          session' = [session EXCEPT ![s] = [SessionStart EXCEPT !.pc = "closed", !.cid = frame]]
    /\ UNCHANGED <<durable, challenges, request_queue, ttl_expiries, mutex,
                   update_bus, shutdown_token, now, main, worker, actions, observe,
                   update_rx, socket, probe>>

\* a frame was received that is not a ServerBoundMessage, or a ChallengeAction
\* whose id is not in the catalog: dashboard_handle_ws returns, before the
\* rate limiter is consulted
GwClose(s) ==
    /\ Live
    /\ session[s].pc = "recv"
    /\ ~shutdown_token
    /\ \E frame \in {"invalid"} \cup (Challenges \ challenges) :
          session' = [session EXCEPT ![s] = [SessionStart EXCEPT !.pc = "closed", !.cid = frame]]
    /\ UNCHANGED <<durable, challenges, request_queue, ttl_expiries, mutex,
                   update_bus, shutdown_token, now, main, worker, actions, observe,
                   update_rx, socket, rate_limiter, probe>>

\* the forwarding without the "update.user_id != uid" test
GwForward_unfiltered(s) ==
    /\ Live
    /\ session[s].pc = "recv"
    /\ update_rx[s] < Len(update_bus)
    /\ update_rx' = [update_rx EXCEPT ![s] = @ + 1]
    /\ LET update == update_bus[update_rx[s] + 1].update IN
       socket_send(s, "update",
                << IF update.type = "StateChange"
                   THEN ChallengeStateChange(update.challenge_id, update.state,
                                             update.details, update.stop_time)
                   ELSE ClientMessage(update.challenge_id, update.severity) >>)
    /\ UNCHANGED <<durable, challenges, request_queue, ttl_expiries, mutex,
                   update_bus, shutdown_token, now, main, worker, session, actions,
                   observe, rate_limiter, probe>>

\* update_rx.recv() returned the next update of the bus: it is skipped when
\* it is another user's, else forwarded on the socket
GwForward(s) ==
    /\ Live
    /\ session[s].pc = "recv"
    /\ update_rx[s] < Len(update_bus)
    /\ update_rx' = [update_rx EXCEPT ![s] = @ + 1]
    /\ LET update == update_bus[update_rx[s] + 1].update IN
       IF update.user_id # SessionUser(s)
       THEN UNCHANGED socket
       ELSE socket_send(s, "update",
                << IF update.type = "StateChange"
                   THEN ChallengeStateChange(update.challenge_id, update.state,
                                             update.details, update.stop_time)
                   ELSE ClientMessage(update.challenge_id, update.severity) >>)
    /\ UNCHANGED <<durable, challenges, request_queue, ttl_expiries, mutex,
                   update_bus, shutdown_token, now, main, worker, session, actions,
                   observe, rate_limiter, probe>>


\* Start with the Start request sent whatever insert_challenge_instance returned
GwStart_always_requests(s) ==
    /\ Live
    /\ session[s].pc = "start"
    /\ LET r == insert_challenge_instance(challenge_instances, instance_count,
                    SessionUser(s), session[s].cid, max_concurrent_challenges)
       IN  /\ challenge_instances' = r.rows
           /\ instance_count' = r.cnt
           /\ request_queue' = Append(request_queue,
                   DeploymentRequest(SessionUser(s), session[s].cid, "Start"))
           /\ socket_send(s, "action",
                 CASE r.result = "Inserted" ->
                          << ChallengeStateChange(session[s].cid, QueuedStart, NULL, NoTime) >>
                   [] r.result = "LimitReached" ->
                          << ClientMessage(session[s].cid, "Warning") >>
                   [] OTHER -> << >>)
    /\ session' = [session EXCEPT ![s] = SessionStart]
    /\ UNCHANGED <<challenges, ttl_expiries, mutex, update_bus, shutdown_token,
                   now, main, worker, actions, observe, update_rx, rate_limiter, probe>>

\* Start: insert_challenge_instance with the limit of the configuration and,
\* when Inserted, the Start request
GwStartAt(s, max_instance_count) ==
    /\ Live
    /\ session[s].pc = "start"
    /\ LET r == insert_challenge_instance(challenge_instances, instance_count,
                    SessionUser(s), session[s].cid, max_instance_count)
       IN  /\ challenge_instances' = r.rows
           /\ instance_count' = r.cnt
           /\ request_queue' =
                 IF r.result = "Inserted"
                 THEN Append(request_queue,
                             DeploymentRequest(SessionUser(s), session[s].cid, "Start"))
                 ELSE request_queue
           /\ socket_send(s, "action",
                 CASE r.result = "Inserted" ->
                          << ChallengeStateChange(session[s].cid, QueuedStart, NULL, NoTime) >>
                   [] r.result = "LimitReached" ->
                          << ClientMessage(session[s].cid, "Warning") >>
                   [] OTHER -> << >>)
    /\ session' = [session EXCEPT ![s] = SessionStart]
    /\ UNCHANGED <<challenges, ttl_expiries, mutex, update_bus, shutdown_token,
                   now, main, worker, actions, observe, update_rx, rate_limiter, probe>>

GwStart(s) == GwStartAt(s, max_concurrent_challenges)

\* Stop and Restart sending the request whatever the CAS answered
GwTransition_requests_always(s, action, new_state, command) ==
    /\ Live
    /\ session[s].pc = action
    /\ LET r == transition_challenge_instance_state(challenge_instances,
                    SessionUser(s), session[s].cid, Running, new_state)
       IN  /\ challenge_instances' = r.rows
           /\ request_queue' =
                 Append(request_queue,
                        DeploymentRequest(SessionUser(s), session[s].cid, command))
           /\ socket_send(s, "action",
                 IF r.ok
                 THEN << ChallengeStateChange(session[s].cid, new_state, NULL, NoTime) >>
                 ELSE << >>)
    /\ session' = [session EXCEPT ![s] = SessionStart]
    /\ UNCHANGED <<instance_count, challenges, ttl_expiries, mutex, update_bus,
                   shutdown_token, now, main, worker, actions, observe,
                   update_rx, rate_limiter, probe>>

\* Stop and Restart: the CAS from Running and, when it succeeded, the request
GwTransition(s, action, new_state, command) ==
    /\ Live
    /\ session[s].pc = action
    /\ LET r == transition_challenge_instance_state(challenge_instances,
                    SessionUser(s), session[s].cid, Running, new_state)
       IN  /\ challenge_instances' = r.rows
           /\ request_queue' =
                 IF r.ok
                 THEN Append(request_queue,
                             DeploymentRequest(SessionUser(s), session[s].cid, command))
                 ELSE request_queue
           /\ socket_send(s, "action",
                 IF r.ok
                 THEN << ChallengeStateChange(session[s].cid, new_state, NULL, NoTime) >>
                 ELSE << >>)
    /\ session' = [session EXCEPT ![s] = SessionStart]
    /\ UNCHANGED <<instance_count, challenges, ttl_expiries, mutex, update_bus,
                   shutdown_token, now, main, worker, actions, observe,
                   update_rx, rate_limiter, probe>>

GwStop(s) == GwTransition(s, "stop", QueuedStop, "Stop")

GwRestart(s) == GwTransition(s, "restart", QueuedRestart, "Restart")

\* Extend: extend_challenge_instance with the stop time computed on receipt
GwExtend(s) ==
    /\ Live
    /\ session[s].pc = "extend"
    /\ LET r == extend_challenge_instance(challenge_instances, SessionUser(s),
                    session[s].cid, session[s].stop_time)
       IN  /\ challenge_instances' = r.rows
           /\ session' = [session EXCEPT ![s] =
                             IF r.ok THEN [@ EXCEPT !.pc = "pop_ttl"] ELSE SessionStart]
    /\ UNCHANGED <<instance_count, challenges, request_queue, ttl_expiries, mutex,
                   update_bus, shutdown_token, now, main, worker, actions, observe,
                   update_rx, socket, rate_limiter, probe>>

\* Extend: the pop_ttl of push_ttl
GwPopTtl(s) ==
    /\ Live
    /\ session[s].pc = "pop_ttl"
    /\ mutex = "free"
    /\ ttl_expiries' = pop_ttl(ttl_expiries, SessionUser(s), session[s].cid)
    /\ session' = [session EXCEPT ![s].pc = "push"]
    /\ UNCHANGED <<durable, challenges, request_queue, mutex, update_bus,
                   shutdown_token, now, main, worker, actions, observe,
                   update_rx, socket, rate_limiter, probe>>

\* Extend: the push of push_ttl, then the two messages
GwPushTtl(s) ==
    /\ Live
    /\ session[s].pc = "push"
    /\ mutex = "free"
    /\ ttl_expiries' = HeapPush(ttl_expiries,
           ChallengeInstanceOrdered(SessionUser(s), session[s].cid, session[s].stop_time))
    /\ socket_send(s, "action",
           << ChallengeStateChange(session[s].cid, Running, NULL, session[s].stop_time),
              ClientMessage(session[s].cid, "Success") >>)
    /\ session' = [session EXCEPT ![s] = SessionStart]
    /\ UNCHANGED <<durable, challenges, request_queue, mutex, update_bus,
                   shutdown_token, now, main, worker, actions, observe,
                   update_rx, rate_limiter, probe>>

(***************************************************************************)
(* Specification                                                           *)
(***************************************************************************)
WorkerStep(w) ==
    \/ WorkerLoop(w)
    \/ WorkerCas(w)
    \/ WorkerBcast(w)
    \/ WorkerRecv(w)
    \/ WorkerDeploy(w)
    \/ WorkerPopTtl(w)
    \/ WorkerPushTtl(w)
    \/ WorkerPopulate(w)
    \/ WorkerDelete(w)

\* the steps of a session that finish the action it has received
GwFinish(s) ==
    \/ GwStart(s)
    \/ GwStop(s)
    \/ GwRestart(s)
    \/ GwExtend(s)
    \/ GwPopTtl(s)
    \/ GwPushTtl(s)

\* one process lifetime in which no shutdown signal arrives
Next ==
    \/ prepare
    \/ Tick
    \/ \E w \in Workers : WorkerStep(w) \/ WorkerPanic(w)
    \/ \E s \in Sessions : GwRecv(s) \/ GwFinish(s)

Spec == Init /\ [][Next]_vars

\* the same with the shutdown signal
NextShutdown ==
    \/ Next
    \/ cancel
    \/ join_all

SpecShutdown == Init /\ [][NextShutdown]_vars


\* the tables an observed process starts on: empty, or the Running row of one
\* key of the session's user
SeededKey == <<"u1", "c1">>
TablesObserve ==
    {t \in Tables0 : \A k \in Keys :
        t[k] # NoRow => t[k].state = Running /\ k = SeededKey}

\* the same process with the update bus and the sockets recorded, over a
\* window in which the clock does not advance: every worker sends its updates
\* in steps of its own, and one session of u1 takes MaxFrames frames of any
\* kind and forwards the updates of the bus
InitObserve ==
    /\ challenge_instances \in TablesObserve
    /\ instance_count = [u \in Users |-> RowCount(challenge_instances, u)]
    /\ now = 0
    /\ actions = 0
    /\ observe = TRUE
    /\ probe = NoProbe
    /\ \E cat \in Catalogs : Boot(cat)

ObserveSessions == {"s1"}

NextObserve ==
    \/ prepare
    \/ \E w \in Workers : WorkerStep(w) \/ WorkerEmit(w) \/ WorkerPanic(w)
    \/ \E s \in ObserveSessions :
          \/ actions < MaxFrames /\ (GwRecv(s) \/ GwDenied(s))
          \/ GwClose(s)
          \/ GwForward(s)
          \/ GwFinish(s)

SpecObserve == InitObserve /\ [][NextObserve]_vars

\* the observed process started on the Running row of either user: the bus
\* carries updates of a user the session does not belong to
TablesForward ==
    {t \in Tables0 : \A k \in Keys :
        t[k] # NoRow => t[k].state = Running /\ k \in {SeededKey, <<"u2", "c1">>}}

InitForward ==
    /\ challenge_instances \in TablesForward
    /\ instance_count = [u \in Users |-> RowCount(challenge_instances, u)]
    /\ now = 0
    /\ actions = 0
    /\ observe = TRUE
    /\ probe = NoProbe
    /\ \E cat \in Catalogs : Boot(cat)

SpecForward == InitForward /\ [][NextObserve]_vars

\* the observed process over a window in which the clock advances and the
\* session forwards nothing: what the workers put on the bus
NextBus ==
    \/ prepare
    \/ Tick
    \/ \E w \in Workers : WorkerStep(w) \/ WorkerEmit(w) \/ WorkerPanic(w)
    \/ \E s \in ObserveSessions :
          \/ actions < MaxFrames /\ (GwRecv(s) \/ GwDenied(s))
          \/ GwClose(s)
          \/ GwFinish(s)

SpecBus == InitObserve /\ [][NextBus]_vars

\* the tasks of the fair specification: one worker (worker_count = 1 in
\* the configuration) and one session
FairWorkers == {"w1"}
FairSessions == {"s1"}

\* every task of the runtime is scheduled again and again, the clock
\* advances, every script ends, and no cleanup script fails
NextNoPanic ==
    \/ prepare
    \/ Tick
    \/ \E w \in FairWorkers : WorkerStep(w)
    \/ \E s \in FairSessions : GwRecv(s) \/ GwFinish(s)

Fairness ==
    /\ WF_vars(prepare)
    /\ WF_vars(Tick)
    /\ \A w \in FairWorkers : WF_vars(WorkerStep(w))
    /\ \A s \in FairSessions : WF_vars(GwFinish(s))

FairSpec == Init /\ [][NextNoPanic]_vars /\ Fairness

\* the tables a process that will be shut down starts on: empty, or one row
\* of the session's user in any state
TablesShutdown ==
    {t \in Tables0 : \A k \in Keys : t[k] # NoRow => k = <<"u1", "c1">>}

InitShutdown ==
    /\ challenge_instances \in TablesShutdown
    /\ instance_count = [u \in Users |-> RowCount(challenge_instances, u)]
    /\ now = 0
    /\ actions = 0
    /\ observe = FALSE
    /\ probe = NoProbe
    /\ \E cat \in Catalogs : Boot(cat)

\* one process lifetime with its end: every worker and one session run, a
\* cleanup script may fail, and the shutdown signal may arrive at any moment
\* of the service, or never
NextFairShutdown ==
    \/ prepare
    \/ Tick
    \/ cancel
    \/ join_all
    \/ \E w \in Workers : WorkerStep(w) \/ WorkerPanic(w)
    \/ \E s \in FairSessions : (actions < MaxFrames /\ GwRecv(s)) \/ GwFinish(s)

\* every task of the runtime is scheduled again and again, the clock
\* advances and every script ends; nothing makes the signal arrive, a frame
\* come in or a cleanup script fail
FairnessShutdown ==
    /\ WF_vars(prepare)
    /\ WF_vars(Tick)
    /\ WF_vars(join_all)
    /\ \A w \in Workers : WF_vars(WorkerStep(w))
    /\ \A s \in FairSessions : WF_vars(GwFinish(s))

FairShutdown == InitShutdown /\ [][NextFairShutdown]_vars /\ FairnessShutdown

(***************************************************************************)
(* Database::delete_challenge_instance, called twice for one key           *)
(***************************************************************************)
\* the tables in which every user is below or at the limit
LegalTables ==
    {t \in [Keys -> Rows0] :
        \A u \in Users : RowCount(t, u) <= max_concurrent_challenges}

\* any legal tables, any key; the record keeps whether the key had a row, the
\* user's counter before the first call and the counter after it
InitDelete ==
    /\ challenge_instances \in LegalTables
    /\ instance_count = [u \in Users |-> RowCount(challenge_instances, u)]
    /\ now = 0
    /\ actions = 0
    /\ observe = FALSE
    /\ \E k \in Keys :
          probe = [op |-> "delete", key |-> k, calls |-> 0,
                   had_row |-> challenge_instances[k] # NoRow,
                   count0 |-> instance_count[k[1]],
                   count1 |-> instance_count[k[1]]]
    /\ Boot(Challenges)

\* one call of delete_challenge_instance for the key
DeleteCall ==
    /\ probe.op = "delete"
    /\ probe.calls < 2
    /\ LET r == delete_challenge_instance(challenge_instances, instance_count,
                                          probe.key[1], probe.key[2])
       IN  /\ challenge_instances' = r.rows
           /\ instance_count' = r.cnt
           /\ probe' = [probe EXCEPT !.calls = @ + 1,
                                     !.count1 = IF probe.calls = 0
                                                THEN r.cnt[probe.key[1]] ELSE @]
    /\ UNCHANGED <<memory, now, actions, observe, update_rx, socket, rate_limiter>>

SpecDelete == InitDelete /\ [][DeleteCall]_vars

(***************************************************************************)
(* DeploymentWorker::prepare run once or twice, then the workers drain     *)
(***************************************************************************)
\* any legal tables left by a previous process; prepare is to run once or
\* twice; the record keeps the tables the process started on
InitRecovery ==
    /\ challenge_instances \in LegalTables
    /\ instance_count = [u \in Users |-> RowCount(challenge_instances, u)]
    /\ now = 0
    /\ actions = 0
    /\ observe = FALSE
    /\ \E n \in {1, 2} :
          probe = [op |-> "recovery", runs |-> n, rows0 |-> challenge_instances]
    /\ \E cat \in Catalogs : Boot(cat)

\* prepare, once
RecoverOnce ==
    /\ probe.op = "recovery"
    /\ probe.runs = 1
    /\ prepare

\* prepare, and prepare again before anything else runs
RecoverTwice ==
    /\ probe.op = "recovery"
    /\ probe.runs = 2
    /\ prepare_at("prepare", "prepare2") \/ prepare_at("prepare2", "serving")

\* the steps of a worker that has no Start or Restart to handle and whose
\* cleanup scripts succeed
Drain(w) ==
    \/ WorkerLoop(w)
    \/ WorkerCas(w)
    \/ WorkerBcast(w)
    \/ WorkerRecv(w)
    \/ WorkerDeploy(w)
    \/ WorkerPopTtl(w)
    \/ WorkerDelete(w)

NextRecovery ==
    \/ RecoverOnce
    \/ RecoverTwice
    \/ \E w \in Workers : Drain(w)

SpecRecovery == InitRecovery /\ [][NextRecovery]_vars

(***************************************************************************)
(* Properties                                                              *)
(***************************************************************************)
\* the Stop and Restart requests of key k that are queued or being handled
StopRestartInFlight(k) ==
    Cardinality({i \in 1..Len(request_queue) :
                    /\ request_queue[i].user_id = k[1]
                    /\ request_queue[i].challenge_id = k[2]
                    /\ request_queue[i].command \in {"Stop", "Restart"}})
    + Cardinality({w \in Workers :
                    /\ worker[w].req.user_id = k[1]
                    /\ worker[w].req.challenge_id = k[2]
                    /\ worker[w].req.command \in {"Stop", "Restart"}})

\* no handler of a worker, no expiry round and no gateway action is under
\* way, and no request waits in the queue
Quiescent ==
    /\ main = "serving"
    /\ \A w \in Workers : worker[w].pc \in {"loop", "select", "done", "panicked"}
    /\ \A s \in Sessions : session[s].pc = "recv"
    /\ request_queue = <<>>
    /\ mutex = "free"

\* C2: for every user, instance_count is the number of the user's rows (every
\* Store transaction is one step, so no state is inside a transaction).
C2_CountMatchesRows ==
    \A u \in Users : instance_count[u] = RowCount(challenge_instances, u)

\* C2 witness: a Start of u1 was inserted in this process (its request is
\* queued) and the counter stands at the limit.
C2_Witness ==
    /\ \E i \in 1..Len(request_queue) :
          request_queue[i].command = "Start" /\ request_queue[i].user_id = "u1"
    /\ instance_count["u1"] = 1
    /\ actions = MaxActions

\* C3 as stated: whenever a row is written, the written row is Running
\* exactly when its details and stop_time are both present.
C3_RunningIffPopulated ==
    [][\A k \in Keys :
          (challenge_instances'[k] # challenge_instances[k] /\ challenge_instances'[k] # NoRow)
          => ((challenge_instances'[k].state = Running)
                <=> (challenge_instances'[k].details # NULL
                     /\ challenge_instances'[k].stop_time # NoTime))]_vars

\* C3 amended: details and stop_time are both present exactly when the row
\* is not QueuedStart (Running, QueuedStop and QueuedRestart rows carry them,
\* a QueuedStart row has neither).
C3_PopulatedIffStarted ==
    \A k \in Keys :
        challenge_instances[k] # NoRow =>
            /\ (challenge_instances[k].state # QueuedStart)
                  <=> (challenge_instances[k].details # NULL
                       /\ challenge_instances[k].stop_time # NoTime)
            /\ (challenge_instances[k].state = QueuedStart)
                  <=> (challenge_instances[k].details = NULL
                       /\ challenge_instances[k].stop_time = NoTime)

\* C3 witness: a row started in this process (its stop_time is later than any
\* a previous process left) has been moved out of Running by a Stop or Restart.
C3_Witness ==
    \E k \in Keys :
        /\ challenge_instances[k].state \in {QueuedStop, QueuedRestart}
        /\ challenge_instances[k].stop_time > MaxStopTime0
        /\ StopRestartInFlight(k) = 1

\* C4: when nothing is under way, the Expiry Queue holds exactly one entry
\* for every Running row and none for any other key.
C4_ExpiryMatchesRunning ==
    Quiescent =>
        \A k \in Keys :
            EntriesOf(ttl_expiries, k) =
                IF challenge_instances[k].state = Running THEN 1 ELSE 0

\* C5: no user's instance_count exceeds max_concurrent_challenges.
C5_CountWithinLimit ==
    \A u \in Users : instance_count[u] <= max_concurrent_challenges

\* C5 witness: two sessions of u1 are both about to insert, for different
\* challenges, while the counter is below the limit; and one has inserted
\* while the other is still about to.
C5_Witness ==
    /\ session["s1"].pc = "start"
    /\ session["s2"].pc = "recv"
    /\ session["s1"].cid = "c2"
    /\ challenge_instances[<<"u1", "c1">>].state = QueuedStart
    /\ instance_count["u1"] = max_concurrent_challenges
    /\ actions = 2
    /\ \E i \in 1..Len(request_queue) :
          request_queue[i] = DeploymentRequest("u1", "c1", "Start")

\* C6: of the callers that try to move a Running row, at most one succeeds:
\* a key never has two Stop or Restart requests queued or being handled, and
\* has none while its row is Running.
C6_OneTransitionWins ==
    \A k \in Keys :
        /\ StopRestartInFlight(k) <= 1
        /\ challenge_instances[k].state = Running => StopRestartInFlight(k) = 0

\* C6 witness: a gateway Stop and a worker's expiry CAS are both about to
\* call transition_state on a row that a Restart has already moved.
C6_Witness ==
    \E w \in Workers :
        /\ worker[w].pc = "cas"
        /\ worker[w].ent.user_id = "u1"
        /\ worker[w].ent.challenge_id = "c1"
        /\ session["s1"].pc = "stop"
        /\ session["s1"].cid = "c1"
        /\ challenge_instances[<<"u1", "c1">>].state = QueuedRestart
        /\ StopRestartInFlight(<<"u1", "c1">>) = 1

\* C10: the step of recovery leaves, for every Running row, exactly one
\* entry carrying the row's stop_time, no entry for any other key, and
\* changes neither a row nor a counter.
C10_RecoveryRebuildsExpiries ==
    [][(main = "prepare" /\ main' = "serving") =>
          /\ challenge_instances' = challenge_instances
          /\ instance_count' = instance_count
          /\ \A k \in Keys :
                IF challenge_instances[k].state = Running
                THEN /\ EntriesOf(ttl_expiries', k) = 1
                     /\ ChallengeInstanceOrdered(k[1], k[2], challenge_instances[k].stop_time)
                           \in BagToSet(ttl_expiries')
                ELSE EntriesOf(ttl_expiries', k) = 0]_vars

\* C10 witness: recovery has just run on a database with a Running row.
C10_Witness ==
    /\ main = "serving"
    /\ \A w \in Workers : worker[w] = WorkerStart
    /\ actions = 0
    /\ now = 0
    /\ \E k \in Keys :
          /\ challenge_instances[k].state = Running
          /\ EntriesOf(ttl_expiries, k) = 1

\* C7: a second delete_challenge_instance for the same key leaves the user's
\* instance_count at its value after the first call, and a call for a key
\* that has no row leaves it unchanged.
C7_DeleteIdempotent ==
    probe.op = "delete" =>
        /\ probe.calls = 2 => instance_count[probe.key[1]] = probe.count1
        /\ (probe.calls >= 1 /\ ~probe.had_row) => probe.count1 = probe.count0

\* the request queue is drained: recovery is over, every worker waits in
\* select! with nothing expired and nothing to receive
Drained ==
    /\ main = "serving"
    /\ request_queue = <<>>
    /\ mutex = "free"
    /\ \A w \in Workers : worker[w].pc = "select"

\* the rows one recovery and a drain leave of the tables the process started
\* on, at time 0: a key of the catalog loses its queued row and its expired
\* Running row, a Running row of no catalog challenge that has expired stays
\* QueuedStop, every other row stays as it was
RecoveredOnce ==
    [k \in Keys |->
        LET r == probe.rows0[k]
            expired == r.state = Running /\ r.stop_time <= 0
        IN  IF k[2] \in challenges
            THEN IF is_queued(r.state) \/ expired THEN NoRow ELSE r
            ELSE IF expired THEN [r EXCEPT !.state = QueuedStop] ELSE r]

\* one recovery and a drain end in RecoveredOnce and its row counts
RecoveryOnceOutcome ==
    (probe.op = "recovery" /\ probe.runs = 1 /\ Drained) =>
        /\ challenge_instances = RecoveredOnce
        /\ instance_count = [u \in Users |-> RowCount(RecoveredOnce, u)]

\* C8: two recoveries back-to-back and a drain end in the durable state that
\* one recovery and a drain end in (rows and every user's instance_count).
C8_RecoveryIdempotent ==
    (probe.op = "recovery" /\ probe.runs = 2 /\ Drained) =>
        /\ challenge_instances = RecoveredOnce
        /\ instance_count = [u \in Users |-> RowCount(RecoveredOnce, u)]

\* the requests of key k that are queued or being handled and are no Cleanup
OtherInFlight(k) ==
    Cardinality({i \in 1..Len(request_queue) :
                    /\ request_queue[i].user_id = k[1]
                    /\ request_queue[i].challenge_id = k[2]
                    /\ request_queue[i].command # "Cleanup"})
    + Cardinality({w \in Workers :
                    /\ worker[w].req.user_id = k[1]
                    /\ worker[w].req.challenge_id = k[2]
                    /\ worker[w].req.command # "Cleanup"})

\* C1: a Running instance of a catalog challenge whose persisted stop_time has
\* passed is eventually removed, or extended past the clock; workers are
\* fair, scripts end, and no cleanup script fails.
C1_EventualReaping ==
    \A k \in Keys :
        (/\ k[2] \in challenges
         /\ challenge_instances[k].state = Running
         /\ challenge_instances[k].stop_time <= now)
        ~> (challenge_instances[k] = NoRow \/ challenge_instances[k].stop_time > now)

C11_ExpiryByCurrentEntry ==
    [][\A w \in Workers :
          (worker[w].pc = "cas" /\ worker'[w].pc = "bcast") =>
              worker[w].ent.stop_time =
                  challenge_instances[<<worker[w].ent.user_id,
                                        worker[w].ent.challenge_id>>].stop_time]_vars

(***************************************************************************)
(* What a session is sent                                                  *)
(***************************************************************************)
\* the positions of socket[s] that hold message m
Received(s, m) == {i \in 1..Len(socket[s]) : socket[s][i].message = m}

\* the positions at which session s answered a Start of c with QueuedStart
StartAccepted(s, c) ==
    {i \in Received(s, ChallengeStateChange(c, QueuedStart, NULL, NoTime)) :
        socket[s][i].via = "action"}

\* C12: a session whose Start of a challenge that had no instance was accepted
\* is sent StateChange(Stopped) for it only after the Message(Error) of the
\* failed start: QueuedStart, then Message(Error), then Stopped, in this order.
C12_StartFailureOrder ==
    \A s \in ObserveSessions, c \in Challenges :
        <<SessionUser(s), c>> # SeededKey =>
            \A i \in StartAccepted(s, c) :
                \A j \in Received(s, ChallengeStateChange(c, Stopped, NULL, NoTime)) :
                    j > i => \E e \in Received(s, ClientMessage(c, "Error")) : i < e /\ e < j

\* the positions of the bus that hold update u sent while handling cmd
Broadcast(cmd, u) ==
    {i \in 1..Len(update_bus) : update_bus[i] = Sent(u, cmd)}

\* the Stop requests for key k the gateway has sent: each is answered on the
\* session's socket by StateChange(QueuedStop)
GatewayStops(k) ==
    UNION {{<<s, i>> : i \in {j \in Received(s, ChallengeStateChange(k[2], QueuedStop, NULL, NoTime)) :
                                  socket[s][j].via = "action"}} :
           s \in {x \in Sessions : SessionUser(x) = k[1]}}

\* C13: the bus carries the StateChange(QueuedStop) of an expiry before the
\* StateChange(Stopped) of the Stop request that expiry sent: at every moment
\* the Stopped updates of Stop handlers for a key are no more than the
\* QueuedStop updates the expiry loop has broadcast for it plus the Stop
\* requests the gateway sent for it.
C13_QueuedStopBeforeStopped ==
    \A k \in Keys :
        Cardinality(Broadcast("Stop", StateChange(k[1], k[2], Stopped, NULL, NoTime)))
            <= Cardinality(Broadcast("Expiry", StateChange(k[1], k[2], QueuedStop, NULL, NoTime)))
               + Cardinality(GatewayStops(k))

\* an expired instance was stopped: its QueuedStop and then the Stopped of the
\* Stop handler are on the bus, and the gateway sent no Stop for it
C13_Witness ==
    \E k \in Keys :
        /\ GatewayStops(k) = {}
        /\ \E i \in Broadcast("Expiry", StateChange(k[1], k[2], QueuedStop, NULL, NoTime)),
              j \in Broadcast("Stop", StateChange(k[1], k[2], Stopped, NULL, NoTime)) : i < j

\* C14: a Start of a challenge the user has no instance of, taken while the
\* user's instance_count equals max_concurrent_challenges, is answered with
\* Message(Warning) and nothing else: no row is inserted, instance_count is
\* unchanged and no request is enqueued.
C14_LimitReachedRefused ==
    [][\A s \in ObserveSessions :
          LET u == SessionUser(s)
              c == session[s].cid
          IN  (/\ session[s].pc = "start"
               /\ session'[s].pc = "recv"
               /\ instance_count[u] = max_concurrent_challenges
               /\ challenge_instances[<<u, c>>] = NoRow)
              => /\ socket'[s] = Append(socket[s], [message |-> ClientMessage(c, "Warning"),
                                                    via |-> "action"])
                 /\ challenge_instances' = challenge_instances
                 /\ instance_count' = instance_count
                 /\ request_queue' = request_queue]_vars

\* the user at the limit was refused the Start of another challenge: the
\* frame passed the rate limiter, the answer is the Warning, the session is
\* back at its loop
C14_Witness ==
    \E s \in ObserveSessions, c \in Challenges :
        /\ session[s].pc = "recv"
        /\ rate_limiter[SessionUser(s)] = 1
        /\ instance_count[SessionUser(s)] = max_concurrent_challenges
        /\ challenge_instances[<<SessionUser(s), c>>] = NoRow
        /\ Len(socket[s]) > 0
        /\ socket[s][Len(socket[s])] = [message |-> ClientMessage(c, "Warning"), via |-> "action"]

\* C15: a ChallengeAction the rate limiter denies is answered, as it is taken,
\* with Message(Warning) keyed by a challenge id of the catalog, and that is
\* all: the session is back at its loop with no action to dispatch, nothing
\* is enqueued, and the Store and the Expiry Queue are unchanged.
C15_DeniedOnlyWarns ==
    [][\A s \in ObserveSessions :
          (actions' = actions + 1 /\ socket'[s] # socket[s])
          => /\ \E c \in challenges :
                   socket'[s] = Append(socket[s], [message |-> ClientMessage(c, "Warning"),
                                                   via |-> "action"])
             /\ session'[s] = session[s]
             /\ request_queue' = request_queue
             /\ challenge_instances' = challenge_instances
             /\ instance_count' = instance_count
             /\ ttl_expiries' = ttl_expiries]_vars

\* a frame was denied: it was taken, no cell of the user's budget was, the
\* Warning is the last message of the socket and the session waits again
C15_Witness ==
    \E s \in ObserveSessions, c \in Challenges :
        /\ actions = 1
        /\ rate_limiter[SessionUser(s)] = 0
        /\ session[s] = SessionStart
        /\ Len(socket[s]) > 0
        /\ socket[s][Len(socket[s])] = [message |-> ClientMessage(c, "Warning"), via |-> "action"]

\* C19: the step that closes a session on a malformed frame or on a
\* ChallengeAction whose id is not in the Catalog changes neither the Store nor
\* the Expiry Queue, enqueues no request and takes no cell of the user's
\* rate-limit budget.
C19_ViolationOnlyCloses ==
    [][\A s \in ObserveSessions :
          (session[s].pc # "closed" /\ session'[s].pc = "closed")
          => /\ session[s].pc = "recv"
             /\ challenge_instances' = challenge_instances
             /\ instance_count' = instance_count
             /\ ttl_expiries' = ttl_expiries
             /\ request_queue' = request_queue
             /\ rate_limiter' = rate_limiter
             /\ socket' = socket]_vars

\* a session was closed on the id of a challenge that is not in the catalog
\* while the user had an instance running
C19_Witness ==
    \E s \in ObserveSessions :
        /\ session[s].pc = "closed"
        /\ session[s].cid \in Challenges \ challenges
        /\ challenge_instances[SeededKey].state = Running

\* a session was closed on a frame that is not a ServerBoundMessage after an
\* action of it had been taken and while a request was waiting
C19_WitnessMalformed ==
    \E s \in ObserveSessions :
        /\ session[s].pc = "closed"
        /\ session[s].cid = "invalid"
        /\ rate_limiter[SessionUser(s)] = 1
        /\ Len(request_queue) > 0

\* the positions of a worker inside handle_request before its match has
\* produced the pair of updates
Handling == {"deploy", "pop_ttl", "push", "populate", "delete"}

\* C20: a worker that handles a request sends nothing while it handles it,
\* leaves its match (on success or on a failure it recovers from) with exactly
\* two updates for the request's (user, challenge), a StateChange and then a
\* Message, sends the StateChange, then the Message, sending nothing else in
\* between, and only then returns to its loop.
C20_TwoUpdatesPerRequest ==
    [][\A w \in Workers :
          LET req == worker[w].req
              us == worker'[w].updates
          IN  /\ (worker[w].pc \in Handling /\ worker'[w] # worker[w])
                 => /\ worker'[w].pc \in Handling \cup {"emit", "panicked"}
                    /\ update_bus' = update_bus
              /\ (worker[w].pc \in Handling /\ worker'[w].pc = "emit")
                 => /\ Len(us) = 2
                    /\ us[1].type = "StateChange" /\ us[2].type = "Message"
                    /\ \A i \in 1..2 : /\ us[i].user_id = req.user_id
                                       /\ us[i].challenge_id = req.challenge_id
              /\ (worker[w].pc = "emit" /\ worker'[w] # worker[w])
                 => /\ update_bus' = Append(update_bus,
                                            Sent(Head(worker[w].updates), req.command))
                    /\ IF Len(worker[w].updates) = 2
                       THEN worker'[w] = [worker[w] EXCEPT !.updates = Tail(@)]
                       ELSE worker'[w].pc = "loop"
              /\ (worker[w].pc # "emit" /\ worker'[w].pc = "loop")
                 => worker[w].pc \notin Handling]_vars

\* a Start that failed was handled to completion: its StateChange and then its
\* Message are on the bus and every worker is out of handle_request
C20_Witness ==
    \E k \in Keys :
        /\ \A w \in Workers : worker[w].pc \in {"loop", "select"}
        /\ \E i \in Broadcast("Start", StateChange(k[1], k[2], QueuedStart, NULL, NoTime)),
              j \in Broadcast("Start", Message(k[1], k[2], "Error")) : i < j
        /\ Broadcast("Cleanup", StateChange(k[1], k[2], Stopped, NULL, NoTime)) # {}

(***************************************************************************)
(* Shutdown                                                                *)
(***************************************************************************)
\* C16: once the worker handling a Cleanup has aborted on the script's
\* failure, the cancellation token is eventually tripped: the process heads to
\* its exit instead of serving on with the workers that remain.
C16_CleanupFailureSurfacesShutdown ==
    (\E w \in Workers : worker[w].pc = "panicked") ~> shutdown_token

\* every worker loop has returned normally
AllReturned == \A w \in Workers : worker[w].pc = "done"

\* C17: whenever shutdown has been requested and every worker loop has
\* returned normally, the request queue is empty.
C17_PoolDrainedAtExit ==
    (shutdown_token /\ AllReturned) => request_queue = <<>>

ClientBound(update) ==
    IF update.type = "StateChange"
    THEN ChallengeStateChange(update.challenge_id, update.state,
                              update.details, update.stop_time)
    ELSE ClientMessage(update.challenge_id, update.severity)

\* what session s has forwarded, in order
Forwarded(s) ==
    LET IsUpdate(m) == m.via = "update"
        fw == SelectSeq(socket[s], IsUpdate)
    IN  [i \in 1..Len(fw) |-> fw[i].message]

\* the updates of user u among the first n of the bus, as client messages
UpdatesOf(u, n) ==
    LET IsOfUser(e) == e.update.user_id = u
        own == SelectSeq(SubSeq(update_bus, 1, n), IsOfUser)
    IN  [i \in 1..Len(own) |-> ClientBound(own[i].update)]

\* C21: what a session of user U has forwarded to its client is exactly the
\* updates with user_id = U among the bus updates it has taken, in their
\* order: no update of another user reaches the client, whatever the other
\* users' instances do.
C21_ForwardsOnlyOwnUpdates ==
    \A s \in ObserveSessions : Forwarded(s) = UpdatesOf(SessionUser(s), update_rx[s])

\* a session has taken updates of another user's instance from the bus and
\* updates of its own user
C21_Witness ==
    \E s \in ObserveSessions :
        /\ \E i \in 1..update_rx[s] : update_bus[i].update.user_id # SessionUser(s)
        /\ Forwarded(s) # <<>>

(***************************************************************************)
(* Sessions after the cancellation                                         *)
(***************************************************************************)
\* C22: once the token is cancelled, no step of a session changes the rows,
\* the instance counts, the expiry heap or the request queue, also when the
\* session received its frame before the cancellation.
C22_NoGatewayEffectAfterCancel ==
    [][(shutdown_token /\ session' # session) =>
           UNCHANGED <<challenge_instances, instance_count, ttl_expiries,
                       request_queue>>]_vars

(***************************************************************************)
(* Challenge::deploy: the details read from the script's standard output   *)
(***************************************************************************)
\* a string is the sequence of its characters; U+00E9 stands for a character
\* of two bytes in UTF-8, every other character here has one
Chars == {"$", " ", "x", "U+00E9"}

len_utf8(c) == IF c = "U+00E9" THEN 2 ELSE 1

RECURSIVE len(_)
\* String::len: the length in bytes
len(s) == IF s = <<>> THEN 0 ELSE len_utf8(Head(s)) + len(Tail(s))

\* the lines a script can print, and what it can print in all
Lines == UNION {[1..n -> Chars] : n \in 0..MaxLineLen}
Stdouts == UNION {[1..n -> Lines] : n \in 0..MaxLines}

starts_with(s, pat) == Len(s) >= Len(pat) /\ SubSeq(s, 1, Len(pat)) = pat

\* the number of leading characters of s that fill exactly n bytes, or -1
\* when byte n is past the end of s or inside a character
char_boundary(s, n) ==
    IF \E i \in 0..Len(s) : len(SubSeq(s, 1, i)) = n
    THEN CHOOSE i \in 0..Len(s) : len(SubSeq(s, 1, i)) = n
    ELSE -1

\* &s[n..]: the rest of s from byte n; the index operator aborts when n is
\* not a character boundary of s
slice_from(s, n) ==
    IF char_boundary(s, n) = -1
    THEN [panic |-> TRUE, str |-> <<>>]
    ELSE [panic |-> FALSE, str |-> SubSeq(s, char_boundary(s, n) + 1, Len(s))]

\* the scripts' output, none read yet
InitDeploy ==
    /\ challenge_instances = [k \in Keys |-> NoRow]
    /\ instance_count = [u \in Users |-> 0]
    /\ now = 0
    /\ actions = 0
    /\ observe = FALSE
    /\ \E out \in Stdouts :
          probe = [op |-> "deploy", stdout |-> out, read |-> 0,
                   details |-> <<>>, outcome |-> "reading"]
    /\ Boot(Challenges)

\* stdout.next_line() gave a line
DeployLine ==
    /\ probe.op = "deploy"
    /\ probe.outcome = "reading"
    /\ probe.read < Len(probe.stdout)
    /\ LET line == probe.stdout[probe.read + 1]
           rest == slice_from(line, 2)
           sep == IF len(probe.details) # 0 THEN <<"\n">> ELSE <<>>
       IN  probe' =
             IF ~starts_with(line, <<"$">>)
             THEN [probe EXCEPT !.read = @ + 1]
             ELSE IF rest.panic
             THEN [probe EXCEPT !.read = @ + 1, !.details = @ \o sep,
                                !.outcome = "panic"]
             ELSE [probe EXCEPT !.read = @ + 1, !.details = @ \o sep \o rest.str]
    /\ UNCHANGED <<durable, memory, now, actions, observe, update_rx, socket,
                   rate_limiter>>

\* both streams ended and the script exited with status 0: Ok(details)
DeployEnd ==
    /\ probe.op = "deploy"
    /\ probe.outcome = "reading"
    /\ probe.read = Len(probe.stdout)
    /\ probe' = [probe EXCEPT !.outcome = "Ok"]
    /\ UNCHANGED <<durable, memory, now, actions, observe, update_rx, socket,
                   rate_limiter>>

SpecDeploy == InitDeploy /\ [][DeployLine \/ DeployEnd]_vars

RECURSIVE MarkedLines(_)
\* the lines that begin with "$ ", without that prefix, in order
MarkedLines(out) ==
    IF out = <<>> THEN <<>>
    ELSE IF starts_with(Head(out), <<"$", " ">>)
         THEN <<SubSeq(Head(out), 3, Len(Head(out)))>> \o MarkedLines(Tail(out))
         ELSE MarkedLines(Tail(out))

RECURSIVE JoinLines(_)
\* the lines joined by a newline
JoinLines(ls) ==
    IF ls = <<>> THEN <<>>
    ELSE IF Len(ls) = 1 THEN ls[1]
    ELSE ls[1] \o <<"\n">> \o JoinLines(Tail(ls))

\* C23: a script that exits with status 0 yields Ok with, as details, the
\* lines of its output that begin with "$ " without that prefix, joined by
\* newlines in order; any other line, "$x" and "$" alone included, adds
\* nothing and makes nothing fail.
C23_DetailsAreMarkedLines ==
    (probe.op = "deploy" /\ probe.read = Len(probe.stdout)
        /\ probe.outcome # "reading") =>
    /\ probe.outcome = "Ok"
    /\ probe.details = JoinLines(MarkedLines(probe.stdout))

(***************************************************************************)
(* deserialize_duration: the ttl of a challenge of the configuration       *)
(***************************************************************************)
Digits == {"0", "1", "2", "3", "4", "5", "6", "7", "8", "9"}
Units == {"s", "m", "h", "d"}

\* the strings a configuration gives as ttl in the runs: zeros and nines and
\* one more character, and the values around u32::MAX and 2^25 days
Durations ==
    {ds \o <<c>> : ds \in UNION {[1..n -> {"0", "9"}] : n \in 0..MaxDigits},
                   c \in Units \cup {"x"}}
    \cup {<<"4", "2", "9", "4", "9", "6", "7", "2", "9", "5", "s">>,
          <<"4", "2", "9", "4", "9", "6", "7", "2", "9", "6", "s">>,
          <<"3", "3", "5", "5", "4", "4", "3", "2", "d">>}

to_digit(c) ==
    CASE c = "0" -> 0 [] c = "1" -> 1 [] c = "2" -> 2 [] c = "3" -> 3
      [] c = "4" -> 4 [] c = "5" -> 5 [] c = "6" -> 6 [] c = "7" -> 7
      [] c = "8" -> 8 [] c = "9" -> 9

\* DURATION_RE.is_match: ^[1-9]\d*[smhd]$
is_match(s) ==
    /\ Len(s) >= 2
    /\ s[1] \in Digits \ {"0"}
    /\ \A i \in 2..(Len(s) - 1) : s[i] \in Digits
    /\ s[Len(s)] \in Units

\* A number below 2^64 is written as its four 16-bit limbs, lowest first:
\* the integers of the checker stop at 2^31 - 1.
Limb == 65536
Zero64 == <<0, 0, 0, 0>>

\* n * k + d, for k and d below 2^14
MulAdd(n, k, d) ==
    LET t1 == n[1] * k + d
        t2 == n[2] * k + t1 \div Limb
        t3 == n[3] * k + t2 \div Limb
        t4 == n[4] * k + t3 \div Limb
    IN  <<t1 % Limb, t2 % Limb, t3 % Limb, t4 % Limb>>

\* n <= u32::MAX
fits_u32(n) == n[3] = 0 /\ n[4] = 0

\* n % 2^32
wrapping_u32(n) == <<n[1], n[2], 0, 0>>

\* the factors of the multiplier of a unit
multiplier(c) ==
    CASE c = "s" -> <<1>>
      [] c = "m" -> <<60>>
      [] c = "h" -> <<60, 60>>
      [] c = "d" -> <<60, 60, 24>>

RECURSIVE Times(_, _)
\* n times the product of the factors
Times(n, factors) ==
    IF factors = <<>> THEN n
    ELSE Times(MulAdd(n, Head(factors), 0), Tail(factors))

RECURSIVE parse_u32(_, _)
\* str::parse::<u32> on a string of digits, acc being the value of those
\* read: Err as soon as the value passes u32::MAX
parse_u32(ds, acc) ==
    IF ds = <<>> THEN [ok |-> TRUE, value |-> acc]
    ELSE LET next == MulAdd(acc, 10, to_digit(Head(ds)))
         IN  IF ~fits_u32(next) THEN [ok |-> FALSE, value |-> Zero64]
             ELSE parse_u32(Tail(ds), next)

\* value * multiplier on u32: wraps, or aborts in a build with overflow checks
deserialize_duration(s, overflow_checks) ==
    IF ~is_match(s) THEN [outcome |-> "Err", ttl |-> Zero64]
    ELSE LET parsed == parse_u32(SubSeq(s, 1, Len(s) - 1), Zero64)
             product == Times(parsed.value, multiplier(s[Len(s)]))
         IN  IF ~parsed.ok THEN [outcome |-> "panic", ttl |-> Zero64]
             ELSE IF ~fits_u32(product) /\ overflow_checks
                  THEN [outcome |-> "panic", ttl |-> Zero64]
             ELSE [outcome |-> "Ok", ttl |-> wrapping_u32(product)]

\* a ttl string of the configuration file, and the build of the program
InitDuration ==
    /\ challenge_instances = [k \in Keys |-> NoRow]
    /\ instance_count = [u \in Users |-> 0]
    /\ now = 0
    /\ actions = 0
    /\ observe = FALSE
    /\ \E s \in Durations, checks \in BOOLEAN :
          probe = [op |-> "ttl", s |-> s, overflow_checks |-> checks,
                   outcome |-> "none", ttl |-> Zero64]
    /\ Boot(Challenges)

\* the configuration is loaded
LoadDuration ==
    /\ probe.op = "ttl"
    /\ probe.outcome = "none"
    /\ LET r == deserialize_duration(probe.s, probe.overflow_checks)
       IN  probe' = [probe EXCEPT !.outcome = r.outcome, !.ttl = r.ttl]
    /\ UNCHANGED <<durable, memory, now, actions, observe, update_rx, socket,
                   rate_limiter>>

SpecDuration == InitDuration /\ [][LoadDuration]_vars

RECURSIVE DecimalValue(_)
\* the number a string of digits denotes
DecimalValue(ds) ==
    IF ds = <<>> THEN Zero64
    ELSE MulAdd(DecimalValue(SubSeq(ds, 1, Len(ds) - 1)), 10, to_digit(ds[Len(ds)]))

\* C24: every ttl string of one digit from 1 to 9, further digits and a unit
\* is loaded, and its ttl is the decimal value times 1, 60, 3600 or 86400
\* for s, m, h, d: a positive 32-bit number, never 0, a wrapped value or an
\* abort.
C24_TtlIsValueTimesUnit ==
    (probe.op = "ttl" /\ probe.outcome # "none" /\ is_match(probe.s)) =>
    /\ probe.outcome = "Ok"
    /\ probe.ttl = Times(DecimalValue(SubSeq(probe.s, 1, Len(probe.s) - 1)),
                         multiplier(probe.s[Len(probe.s)]))
    /\ probe.ttl # Zero64
    /\ fits_u32(probe.ttl)

(***************************************************************************)
(* What a handler leaves behind                                            *)
(***************************************************************************)
\* worker w finishes the store and heap work of a request with command cmd
\* in this step
Finishes(w, cmd, pc) ==
    /\ worker[w].pc = pc
    /\ worker'[w].pc # pc
    /\ worker[w].req.command = cmd

\* C25: when the start script has succeeded, the stop time is the time at
\* which it finished plus the challenge's ttl, and when the handler has done
\* its work the row is Running with the script's details and that stop time,
\* the heap holds exactly one entry for the key, with that stop time, and
\* the handler sends StateChange(Running, details, stop_time) and then
\* Message(Success).
C25_StartSuccess ==
    [][\A w \in Workers :
          LET req == worker[w].req
              k == <<req.user_id, req.challenge_id>>
          IN  /\ (Finishes(w, "Start", "deploy") /\ worker'[w].pc = "pop_ttl") =>
                    worker'[w].stop_time = now + ttl(req.challenge_id)
              /\ Finishes(w, "Start", "populate") =>
                    /\ challenge_instances'[k] =
                          [state |-> Running, details |-> worker[w].details,
                           stop_time |-> worker[w].stop_time]
                    /\ EntriesOf(ttl_expiries', k) = 1
                    /\ ChallengeInstanceOrdered(k[1], k[2], worker[w].stop_time)
                          \in BagToSet(ttl_expiries')
                    /\ observe =>
                          worker'[w].updates =
                             << StateChange(k[1], k[2], Running, worker[w].details,
                                            worker[w].stop_time),
                                Message(k[1], k[2], "Success") >>]_vars

\* C26: when a stop or cleanup script has succeeded and the handler has done
\* its work, the key has no row and no heap entry, the user's instance count
\* is one less than before the deletion, and StateChange(Stopped) is handed
\* to the bus only after the row was deleted.
C26_StopSuccess ==
    [][\A w \in Workers :
          LET req == worker[w].req
              k == <<req.user_id, req.challenge_id>>
          IN  (Finishes(w, "Stop", "delete") \/ Finishes(w, "Cleanup", "delete")) =>
                 /\ challenge_instances'[k] = NoRow
                 /\ EntriesOf(ttl_expiries', k) = 0
                 /\ instance_count'[k[1]] = instance_count[k[1]] - 1
                 /\ worker[w].updates = <<>>
                 /\ observe =>
                       /\ worker'[w].updates # <<>>
                       /\ Head(worker'[w].updates) =
                             StateChange(k[1], k[2], Stopped, NULL, NoTime)]_vars

\* the Restart request of key k is with worker w, its script not yet ended
Restarting(w, k) ==
    /\ worker[w].pc = "deploy"
    /\ worker[w].req = DeploymentRequest(k[1], k[2], "Restart")

\* C27: over a Restart whose script succeeds - from the session's CAS
\* Running -> QueuedRestart to the worker's write of Running - the row keeps
\* its details and its stop_time and ends Running, and the user's instance
\* count does not change.
C27_RestartKeepsRow ==
    [][\A k \in Keys :
          LET row == challenge_instances[k]
              row2 == challenge_instances'[k]
          IN  /\ (row # NoRow /\ row2 # NoRow /\ row.state = Running
                      /\ row2.state = QueuedRestart) =>
                    /\ row2 = [row EXCEPT !.state = QueuedRestart]
                    /\ instance_count'[k[1]] = instance_count[k[1]]
              /\ (row # NoRow /\ row2 # NoRow /\ row.state = QueuedRestart) =>
                    /\ row2.details = row.details
                    /\ row2.stop_time = row.stop_time
                    /\ row2.state \in {QueuedRestart, Running}
                    /\ instance_count'[k[1]] = instance_count[k[1]]
              /\ \A w \in Workers :
                    (Restarting(w, k) /\ worker'[w].pc # "deploy"
                        /\ request_queue' = request_queue) =>
                       /\ row # NoRow
                       /\ row.state = QueuedRestart
                       /\ row2 = [row EXCEPT !.state = Running]]_vars

C27_Witness ==
    \E w \in Workers :
        LET req == worker[w].req
            row == challenge_instances[<<req.user_id, req.challenge_id>>]
        IN  /\ worker[w].pc = "emit"
            /\ req.command = "Restart"
            /\ Head(worker[w].updates).state = Running
            /\ row # NoRow
            /\ row.state = Running
            /\ row.details \in Details
            /\ row.stop_time # NoTime

\* worker w ends the script of its request with a failure in this step
ScriptFails(w) ==
    /\ worker[w].pc = "deploy"
    /\ worker'[w].pc = "emit"
    /\ worker'[w].updates[2].severity = "Error"

\* C28: when the script of a Start, Stop or Restart fails, the handler
\* enqueues exactly one Cleanup request for the key, leaves the row in its
\* transient state and the instance counts as they are, and sends the
\* StateChange with that transient state and then Message(Error).
C28_ScriptFailure ==
    [][\A w \in Workers :
          LET req == worker[w].req
              k == <<req.user_id, req.challenge_id>>
          IN  ScriptFails(w) =>
                 /\ req.command \in {"Start", "Stop", "Restart"}
                 /\ request_queue' =
                       Append(request_queue, DeploymentRequest(k[1], k[2], "Cleanup"))
                 /\ challenge_instances' = challenge_instances
                 /\ instance_count' = instance_count
                 /\ challenge_instances[k] # NoRow
                 /\ challenge_instances[k].state = FailedState(req.command)
                 /\ worker'[w].updates =
                       << StateChange(k[1], k[2], challenge_instances[k].state,
                                      NULL, NoTime),
                          Message(k[1], k[2], "Error") >>]_vars

C28_Witness ==
    \E w \in Workers :
        LET req == worker[w].req
        IN  /\ worker[w].pc = "emit"
            /\ Len(worker[w].updates) = 2
            /\ worker[w].updates[2].severity = "Error"
            /\ req.command = "Stop"
            /\ \E i \in 1..Len(request_queue) :
                  request_queue[i] =
                      DeploymentRequest(req.user_id, req.challenge_id, "Cleanup")
            /\ challenge_instances[<<req.user_id, req.challenge_id>>] # NoRow

(***************************************************************************)
(* The sessions alone, under every limit of the configuration              *)
(***************************************************************************)
\* the tables of a process in which only the session's user has rows, all
\* Running
TablesInsert ==
    {t \in [Keys -> Rows0] : \A k \in Keys :
        t[k] # NoRow => k[1] = "u1" /\ t[k].state = Running}

\* the settings give any limit the rows respect
InitInsert ==
    /\ challenge_instances \in TablesInsert
    /\ instance_count = [u \in Users |-> RowCount(challenge_instances, u)]
    /\ now = 0
    /\ actions = 0
    /\ observe = TRUE
    /\ \E max \in 1..MaxLimit :
          /\ \A u \in Users : instance_count[u] <= max
          /\ probe = [op |-> "insert", max |-> max]
    /\ Boot(Challenges)

NextInsert ==
    \/ prepare
    \/ \E s \in ObserveSessions :
          \/ GwRecv(s)
          \/ GwStartAt(s, probe.max)
          \/ GwStop(s)
          \/ GwRestart(s)
          \/ GwExtend(s)
          \/ GwPopTtl(s)
          \/ GwPushTtl(s)

SpecInsert == InitInsert /\ [][NextInsert]_vars

\* session s ends the Start it received in this step
StartEnds(s) == session[s].pc = "start" /\ session'[s].pc # "start"

\* C29: a Start whose key already has a row, or whose user is at the limit,
\* leaves the rows and the instance counts exactly as they were; when the
\* key already has a row (and the user is below the limit) it also enqueues
\* nothing and sends nothing.
C29_InsertAllOrNothing ==
    [][\A s \in ObserveSessions :
          LET u == SessionUser(s)
              k == <<u, session[s].cid>>
          IN  /\ (StartEnds(s) /\ (challenge_instances[k] # NoRow
                                   \/ instance_count[u] >= probe.max)) =>
                    /\ challenge_instances' = challenge_instances
                    /\ instance_count' = instance_count
                    /\ request_queue' = request_queue
              /\ (StartEnds(s) /\ challenge_instances[k] # NoRow
                               /\ instance_count[u] < probe.max) =>
                    socket' = socket]_vars

\* the user has two Running rows under a limit of three and the session,
\* having received one frame, has sent nothing: on such rows every action
\* but a Start is answered
C29_Witness ==
    /\ probe = [op |-> "insert", max |-> 3]
    /\ \A c \in Challenges : challenge_instances[<<"u1", c>>] # NoRow
    /\ \A c \in Challenges : challenge_instances[<<"u1", c>>].state = Running
    /\ instance_count["u1"] = 2
    /\ session["s1"].pc = "recv"
    /\ actions = 1
    /\ socket["s1"] = <<>>
    /\ request_queue = <<>>

\* session s ends the Stop or Restart it received in this step
TransitionEnds(s) ==
    session[s].pc \in {"stop", "restart"} /\ session'[s].pc # session[s].pc

\* the request the step has put at the end of the queue, or NoReq
Enqueued ==
    IF Len(request_queue') = Len(request_queue) + 1
    THEN request_queue'[Len(request_queue')]
    ELSE NoReq

\* C30: a session's Stop or Restart on a key whose row is absent or not
\* Running changes no row, enqueues nothing and sends nothing; and a session
\* enqueues a Stop or Restart request only in the step in which its own CAS
\* moved the row of its user's key from Running to the queued state.
C30_RaceLossSilent ==
    [][\A s \in ObserveSessions :
          LET k == <<SessionUser(s), session[s].cid>>
              row == challenge_instances[k]
          IN  /\ (TransitionEnds(s) /\ (row = NoRow \/ row.state # Running)) =>
                    /\ challenge_instances' = challenge_instances
                    /\ instance_count' = instance_count
                    /\ ttl_expiries' = ttl_expiries
                    /\ request_queue' = request_queue
                    /\ socket' = socket
              /\ (session'[s] # session[s] /\ Enqueued.command \in {"Stop", "Restart"}) =>
                    /\ TransitionEnds(s)
                    /\ Enqueued = DeploymentRequest(k[1], k[2],
                                     IF session[s].pc = "stop" THEN "Stop" ELSE "Restart")
                    /\ row # NoRow
                    /\ row.state = Running
                    /\ challenge_instances'[k] =
                          [row EXCEPT !.state = IF session[s].pc = "stop"
                                                THEN QueuedStop ELSE QueuedRestart]]_vars

\* the session's Stop has lost against the expiry: the row is QueuedStop by
\* a worker's CAS, whose Stop request is with a worker
C30_Witness ==
    \E s \in ObserveSessions, w \in Workers :
        LET k == <<SessionUser(s), session[s].cid>>
        IN  /\ session[s].pc = "stop"
            /\ challenge_instances[k] # NoRow
            /\ challenge_instances[k].state = QueuedStop
            /\ worker[w].pc = "deploy"
            /\ worker[w].req = DeploymentRequest(k[1], k[2], "Stop")

(***************************************************************************)
(* Extend                                                                  *)
(***************************************************************************)
\* session s ends, in this step, the extend_challenge_instance of the Extend
\* it received
ExtendEnds(s) == session[s].pc = "extend" /\ session'[s].pc # "extend"

\* C31: an Extend on a key whose row is absent or not Running (a row that
\* the expiry has moved to QueuedStop included) is a no-op: rows, heap and
\* request queue are unchanged, nothing is sent, and the session is back at
\* its loop head with no push pending.
C31_ExtendNoOp ==
    [][\A s \in ObserveSessions :
          LET row == challenge_instances[<<SessionUser(s), session[s].cid>>]
          IN  (ExtendEnds(s) /\ (row = NoRow \/ row.state # Running)) =>
                 /\ challenge_instances' = challenge_instances
                 /\ instance_count' = instance_count
                 /\ ttl_expiries' = ttl_expiries
                 /\ request_queue' = request_queue
                 /\ socket' = socket
                 /\ session'[s] = SessionStart]_vars

\* the session's Extend finds the row in QueuedStop by a worker's expiry
\* CAS, whose Stop request is in flight
C31_Witness ==
    \E s \in ObserveSessions :
        LET k == <<SessionUser(s), session[s].cid>>
        IN  /\ session[s].pc = "extend"
            /\ challenge_instances[k] # NoRow
            /\ challenge_instances[k].state = QueuedStop
            /\ \/ \E i \in 1..Len(request_queue) :
                     request_queue[i] = DeploymentRequest(k[1], k[2], "Stop")
               \/ \E w \in Workers :
                     worker[w].req = DeploymentRequest(k[1], k[2], "Stop")

(***************************************************************************)
(* Requests for challenges that left the catalog                           *)
(***************************************************************************)
\* C32: a worker that takes from the queue a request whose challenge is not
\* in the catalog drops it: it goes back to its loop head without a script,
\* the rows, the instance counts and the heap are unchanged, the queue loses
\* that request and gains none, and no update is sent or left to send.
C32_UnknownChallengeDropped ==
    [][\A w \in Workers :
          (/\ worker[w].pc = "select"
           /\ worker'[w] # worker[w]
           /\ Len(request_queue) > 0
           /\ Len(request_queue') < Len(request_queue)
           /\ Head(request_queue).challenge_id \notin challenges) =>
              /\ worker'[w] = [worker[w] EXCEPT !.pc = "loop"]
              /\ worker'[w].req = NoReq
              /\ worker'[w].updates = <<>>
              /\ challenge_instances' = challenge_instances
              /\ instance_count' = instance_count
              /\ ttl_expiries' = ttl_expiries
              /\ request_queue' = Tail(request_queue)
              /\ update_bus' = update_bus]_vars

\* recovery has sent the Cleanup of a queued row whose challenge is not in
\* the catalog, and the workers have taken it: the queue is empty, no worker
\* holds a request and the row is as it was
C32_Witness ==
    /\ main = "serving"
    /\ actions = 0
    /\ request_queue = <<>>
    /\ \A w \in Workers : worker[w].pc \in {"loop", "select"} /\ worker[w].req = NoReq
    /\ \E k \in Keys :
          /\ k[2] \notin challenges
          /\ challenge_instances[k] # NoRow
          /\ is_queued(challenge_instances[k].state)

(***************************************************************************)
(* The heap                                                                *)
(***************************************************************************)
\* C33: the heap never holds more than one entry for a key, whatever the
\* interleaving of the pushes of a worker's Start, of the sessions' Extends
\* and of recovery.
C33_OneEntryPerKey ==
    \A k \in Keys : EntriesOf(ttl_expiries, k) <= 1

(***************************************************************************)
(* Two sessions of one user, with the bus and the sockets recorded         *)
(***************************************************************************)
\* a pool of one worker and every session of the user, one frame in all;
\* every task of the runtime is scheduled again and again, every script
\* ends, and no cleanup script fails
NextShare ==
    \/ prepare
    \/ \E w \in FairWorkers : WorkerStep(w) \/ WorkerEmit(w)
    \/ \E s \in Sessions :
          \/ actions < MaxFrames /\ GwRecv(s)
          \/ GwForward(s)
          \/ GwFinish(s)

FairnessShare ==
    /\ WF_vars(prepare)
    /\ \A w \in FairWorkers : WF_vars(WorkerStep(w) \/ WorkerEmit(w))
    /\ \A s \in Sessions : WF_vars(GwForward(s)) /\ WF_vars(GwFinish(s))

FairShare == InitObserve /\ [][NextShare]_vars /\ FairnessShare

\* session s has been sent a ChallengeStateChange of challenge c with state st
Told(s, c, st) ==
    \E i \in 1..Len(socket[s]) :
        /\ socket[s][i].message.type = "ChallengeStateChange"
        /\ socket[s][i].message.id = c
        /\ socket[s][i].message.state = st

\* C34: a state change that one session of a user is told is eventually told
\* to every session of that user: the changes made by the sessions
\* themselves (QueuedStart, QueuedStop, QueuedRestart, the Running of an
\* Extend) reach the sessions that did not issue the action too.
C34_EverySessionTold ==
    \A s \in Sessions, t \in Sessions, c \in Challenges,
       st \in {Stopped, Running, QueuedStart, QueuedStop, QueuedRestart} :
        (SessionUser(s) = SessionUser(t) /\ Told(s, c, st)) ~> Told(t, c, st)

(***************************************************************************)
(* One request per key                                                     *)
(***************************************************************************)
\* the requests of key k that wait in the queue or whose script a worker runs
InFlight(k) ==
    Cardinality({i \in 1..Len(request_queue) :
                    /\ request_queue[i].user_id = k[1]
                    /\ request_queue[i].challenge_id = k[2]})
    + Cardinality({w \in Workers :
                    /\ worker[w].pc = "deploy"
                    /\ worker[w].req.user_id = k[1]
                    /\ worker[w].req.challenge_id = k[2]})

\* C35: at most one request of a key waits in the queue or has its script
\* run at any time, so two scripts of one key never run together; and a
\* worker's delete always finds the row it deletes.
C35_OneRequestPerKey ==
    /\ [](\A k \in Keys : InFlight(k) <= 1)
    /\ [][\A w \in Workers :
             (worker[w].pc = "delete" /\ worker'[w].pc # "delete") =>
                 challenge_instances[<<worker[w].req.user_id,
                                       worker[w].req.challenge_id>>] # NoRow]_vars

\* a worker runs the restart script of a key while another session of the
\* user is about to try a Stop on that key
C35_Witness ==
    \E w \in Workers, s \in Sessions :
        LET k == <<SessionUser(s), session[s].cid>>
        IN  /\ session[s].pc = "stop"
            /\ worker[w].pc = "deploy"
            /\ worker[w].req = DeploymentRequest(k[1], k[2], "Restart")
            /\ challenge_instances[k] # NoRow
            /\ challenge_instances[k].state = QueuedRestart

(***************************************************************************)
(* Expiry and the persisted stop time                                      *)
(***************************************************************************)
\* C36: a worker's expiry moves a row from Running to QueuedStop only when
\* the stop_time the row holds is at or before the current time; a row whose
\* Extend has succeeded in the store is not stopped on account of its old
\* stop time.
C36_ExpiryOnlyWhenDue ==
    [][\A w \in Workers :
          (worker[w].pc = "cas" /\ worker'[w].pc = "bcast") =>
              challenge_instances[<<worker[w].ent.user_id,
                                    worker[w].ent.challenge_id>>].stop_time <= now]_vars

(***************************************************************************)
(* The client's view                                                       *)
(***************************************************************************)
\* the positions of socket[s] that hold a ChallengeStateChange of challenge c
StateChangesOf(s, c) ==
    {i \in 1..Len(socket[s]) :
        /\ socket[s][i].message.type = "ChallengeStateChange"
        /\ socket[s][i].message.id = c}

\* the state of the last ChallengeStateChange of c that s was sent
LastState(s, c) ==
    LET last == CHOOSE i \in StateChangesOf(s, c) :
                    \A j \in StateChangesOf(s, c) : j <= i
    IN  socket[s][last].message.state

\* C37: when nothing is queued, in flight or in progress and a connected
\* session has taken every update of the bus, the state of the last
\* ChallengeStateChange it was sent for a challenge is the state of the row
\* of (user, challenge), Stopped standing for no row.
C37_ViewConverges ==
    \A s \in ObserveSessions :
        (Quiescent /\ update_rx[s] = Len(update_bus)) =>
            \A c \in Challenges :
                StateChangesOf(s, c) # {} =>
                    LastState(s, c) = challenge_instances[<<SessionUser(s), c>>].state

\* C38: no worker is waiting on the Store's compare-and-set of an expired
\* entry, or stands between the send of the Stop request and the broadcast
\* that follows it, while it holds the ttl_expiries mutex.
C38_NoLockAcrossAwait ==
    \A w \in Workers : worker[w].pc \in {"cas", "bcast"} => mutex # w

(***************************************************************************)
(* do_work: the sleep until the next expiry                                *)
(***************************************************************************)
\* the seconds slept on an empty heap
IdleSleep == 60

\* SystemTime::duration_since: an error when the other time is the later one
duration_since(self, earlier) ==
    IF earlier <= self
    THEN [ok |-> TRUE, duration |-> self - earlier]
    ELSE [ok |-> FALSE, duration |-> earlier - self]

\* impl Sub for &TimeSinceEpoch: the unwrap of duration_since
sub(self, rhs) ==
    LET r == duration_since(self, rhs)
    IN  IF r.ok
        THEN [outcome |-> "Ok", duration |-> r.duration]
        ELSE [outcome |-> "panic", duration |-> NoTime]

\* the heaps a worker can find: at most one entry per key
HeapsSleep ==
    LET Entries == [user_id : Users, challenge_id : Challenges,
                    stop_time : 0..MaxTime]
    IN  {SetToBag(S) : S \in {T \in SUBSET Entries :
            \A e, f \in T :
                (e.user_id = f.user_id /\ e.challenge_id = f.challenge_id) => e = f}}

InitSleep ==
    /\ challenge_instances = [k \in Keys |-> NoRow]
    /\ instance_count = [u \in Users |-> 0]
    /\ now = 0
    /\ actions = 0
    /\ observe = FALSE
    /\ probe = [op |-> "sleep", pc |-> "peek", ent |-> NoEntry,
                outcome |-> "none", duration |-> NoTime]
    /\ challenges = Challenges
    /\ request_queue = <<>>
    /\ ttl_expiries \in HeapsSleep
    /\ mutex = "w1"
    /\ update_bus = <<>>
    /\ update_rx = [s \in Sessions |-> 0]
    /\ socket = [s \in Sessions |-> <<>>]
    /\ rate_limiter = [u \in Users |-> 0]
    /\ shutdown_token = FALSE
    /\ main = "serving"
    /\ worker = [w \in Workers |-> WorkerStart]
    /\ session = [s \in Sessions |-> SessionStart]

\* the peek and the comparison of the head's stop_time with the first clock
\* read: an empty heap breaks with 60 seconds, a head that is due goes on to
\* the pop, a head that is not goes on to the subtraction
SleepPeek ==
    /\ probe.op = "sleep"
    /\ probe.pc = "peek"
    /\ \/ /\ ttl_expiries = EmptyBag
          /\ probe' = [probe EXCEPT !.pc = "done", !.outcome = "Ok",
                                    !.duration = IdleSleep]
       \/ \E e \in HeapMin(ttl_expiries) :
             probe' = IF e.stop_time > now
                      THEN [probe EXCEPT !.pc = "sub", !.ent = e]
                      ELSE [probe EXCEPT !.pc = "done", !.ent = e,
                                         !.outcome = "pop"]
    /\ UNCHANGED <<durable, memory, now, actions, observe, update_rx, socket,
                   rate_limiter>>

\* the break value: stop_time minus the second clock read
SleepSub ==
    /\ probe.op = "sleep"
    /\ probe.pc = "sub"
    /\ LET r == sub(probe.ent.stop_time, now)
       IN  probe' = [probe EXCEPT !.pc = "done", !.outcome = r.outcome,
                                  !.duration = r.duration]
    /\ UNCHANGED <<durable, memory, now, actions, observe, update_rx, socket,
                   rate_limiter>>

NextSleep ==
    \/ SleepPeek
    \/ SleepSub
    \/ Tick

SpecSleep == InitSleep /\ [][NextSleep]_vars

\* C39: the computation of the sleep never aborts the worker: on an empty
\* heap it gives 60 seconds, and for a head judged not yet due it gives a
\* duration that is not negative, also when the clock passed the head's
\* stop_time between the comparison and the subtraction.
C39_SleepNeverAborts ==
    (probe.op = "sleep" /\ probe.pc = "done") =>
        /\ probe.outcome # "panic"
        /\ ttl_expiries = EmptyBag => probe.duration = IdleSleep
        /\ probe.outcome = "Ok" => probe.duration >= 0

====
